---- MODULE Spec2Model ----
(***************************************************************************)
(* Model of the library organizer: the legacy pipeline                     *)
(* (BookLibraryOrganizer.analyze_library with its duplicate resolution,    *)
(* src/library_organizer.py) and the pattern-table pipeline                *)
(* (BookAnalyzer.analyze_books with its topic classifier,                  *)
(* src/src/core/analyzer.py).                                              *)
(*                                                                         *)
(* Python strings are sequences of one-character strings, so that the      *)
(* string functions of the code (lower, startswith, re.sub, split, ...)    *)
(* are computed character by character, as the code computes them.         *)
(***************************************************************************)
EXTENDS Integers, Sequences, FiniteSets, TLC

\* ------------------------------------------------------------------------
\* Bounds of the model
\* ------------------------------------------------------------------------

\* the largest number of PDF files found under the library root
MaxBooks == 3

\* the number of words of a generated book name
MaxWords == 3

\* ------------------------------------------------------------------------
\* Characters and the string functions of Python the code uses
\* ------------------------------------------------------------------------

UpperLetters == <<"A", "B", "C", "D", "E", "F", "G", "H", "I", "J", "K", "L", "M",
                  "N", "O", "P", "Q", "R", "S", "T", "U", "V", "W", "X", "Y", "Z">>

LowerLetters == <<"a", "b", "c", "d", "e", "f", "g", "h", "i", "j", "k", "l", "m",
                  "n", "o", "p", "q", "r", "s", "t", "u", "v", "w", "x", "y", "z">>

DigitChars == <<"0", "1", "2", "3", "4", "5", "6", "7", "8", "9">>

\* the characters of the model in code point order (str comparison order)
CodePoints == <<" ", "(", ")", ",", "-", ".", "/">> \o DigitChars \o <<":", ";">>
              \o UpperLetters \o <<"[", "]", "_">> \o LowerLetters

Range(s) == {s[i] : i \in DOMAIN s}

IndexIn(c, s) == IF c \in Range(s) THEN CHOOSE i \in DOMAIN s : s[i] = c ELSE 0

\* ord(c)
Ord(c) == IndexIn(c, CodePoints)

\* c.isdigit(), c.isalnum(), c.isspace() and the regex classes \w, \s
IsDigitChar(c) == c \in Range(DigitChars)

AlnumChars == Range(DigitChars) \cup Range(UpperLetters) \cup Range(LowerLetters)

IsAlnum(c) == c \in AlnumChars

IsWordChar(c) == IsAlnum(c) \/ c = "_"

IsSpace(c) == c = " "

\* str.lower()
LowerChar(c) == IF c \in Range(UpperLetters) THEN LowerLetters[IndexIn(c, UpperLetters)] ELSE c

Lower(s) == [i \in DOMAIN s |-> LowerChar(s[i])]

\* s.startswith(p), s.endswith(p)
StartsWith(s, p) == Len(s) >= Len(p) /\ SubSeq(s, 1, Len(p)) = p

EndsWith(s, p) == Len(s) >= Len(p) /\ SubSeq(s, Len(s) - Len(p) + 1, Len(s)) = p

\* p in s (substring test)
Contains(s, p) == \E i \in 1..(Len(s) - Len(p) + 1) : SubSeq(s, i, i + Len(p) - 1) = p

\* s.strip(): leading and trailing whitespace removed
RECURSIVE LStrip(_)
LStrip(s) == IF s # <<>> /\ IsSpace(Head(s)) THEN LStrip(Tail(s)) ELSE s

RECURSIVE RStrip(_)
RStrip(s) == IF s # <<>> /\ IsSpace(s[Len(s)]) THEN RStrip(SubSeq(s, 1, Len(s) - 1)) ELSE s

Strip(s) == RStrip(LStrip(s))

\* len(s.split()): the number of maximal runs of non-whitespace characters
WordCount(s) ==
    Cardinality({i \in DOMAIN s : ~IsSpace(s[i]) /\ (i = 1 \/ IsSpace(s[i - 1]))})

\* s.isdigit(): non-empty and all digits
IsDigitStr(s) == s # <<>> /\ \A i \in DOMAIN s : IsDigitChar(s[i])

\* int(s) of a digit string
RECURSIVE ToInt(_)
ToInt(s) == IF s = <<>> THEN 0
            ELSE 10 * ToInt(SubSeq(s, 1, Len(s) - 1)) + (IndexIn(s[Len(s)], DigitChars) - 1)

\* s < t for str (lexicographic by code point)
RECURSIVE StrLess(_, _)
StrLess(s, t) ==
    IF t = <<>> THEN FALSE
    ELSE IF s = <<>> THEN TRUE
    ELSE IF Head(s) # Head(t) THEN Ord(Head(s)) < Ord(Head(t))
    ELSE StrLess(Tail(s), Tail(t))

\* Path(p).stem: the last component of the path without its last suffix
LastSlash(p) == IF "/" \in Range(p)
                THEN CHOOSE i \in DOMAIN p : p[i] = "/" /\ \A j \in (i + 1)..Len(p) : p[j] # "/"
                ELSE 0

PathName(p) == SubSeq(p, LastSlash(p) + 1, Len(p))

LastDot(n) == IF \E i \in 2..Len(n) : n[i] = "."
              THEN CHOOSE i \in 2..Len(n) : n[i] = "." /\ \A j \in (i + 1)..Len(n) : n[j] # "."
              ELSE 0

PathStem(p) == LET n == PathName(p)
               IN  IF LastDot(n) = 0 THEN n ELSE SubSeq(n, 1, LastDot(n) - 1)

\* ------------------------------------------------------------------------
\* BookLibraryOrganizer._normalize_book_name
\* ------------------------------------------------------------------------

\* prefixes = ['hands on', 'hands-on', 'the', 'a', 'an']
prefixes == << <<"h", "a", "n", "d", "s", " ", "o", "n">>,
               <<"h", "a", "n", "d", "s", "-", "o", "n">>,
               <<"t", "h", "e">>, <<"a">>, <<"a", "n">> >>

\* suffixes = ['.pdf', 'book', 'ebook', 'edition', 'ed']
suffixes == << <<".", "p", "d", "f">>, <<"b", "o", "o", "k">>,
               <<"e", "b", "o", "o", "k">>,
               <<"e", "d", "i", "t", "i", "o", "n">>, <<"e", "d">> >>

\* a _normalize_book_name that leaves the leading prefixes in place
PrefixesKept(name, k) == name

\* for prefix in prefixes: if name.startswith(prefix + ' '): name = name[len(prefix)+1:]
RECURSIVE StripPrefixes(_, _)
StripPrefixes(name, k) ==
    IF k > Len(prefixes) THEN name
    ELSE StripPrefixes(IF StartsWith(name, prefixes[k] \o <<" ">>)
                       THEN SubSeq(name, Len(prefixes[k]) + 2, Len(name))
                       ELSE name, k + 1)

\* for suffix in suffixes: if name.endswith(' ' + suffix): name = name[:-len(suffix)-1]
RECURSIVE StripSuffixes(_, _)
StripSuffixes(name, k) ==
    IF k > Len(suffixes) THEN name
    ELSE StripSuffixes(IF EndsWith(name, <<" ">> \o suffixes[k])
                       THEN SubSeq(name, 1, Len(name) - Len(suffixes[k]) - 1)
                       ELSE name, k + 1)

IsOpenBracket(c) == c \in {"[", "("}

IsCloseBracket(c) == c \in {"]", ")"}

\* re.sub(r'[\[\(].*?[\]\)]', '', name): from the left, an opening bracket and
\* everything up to the nearest closing bracket after it are removed
RECURSIVE RemoveBracketed(_)
RemoveBracketed(s) ==
    IF s = <<>> THEN <<>>
    ELSE IF IsOpenBracket(Head(s)) /\ \E j \in 2..Len(s) : IsCloseBracket(s[j])
         THEN LET j == CHOOSE j \in 2..Len(s) :
                           /\ IsCloseBracket(s[j])
                           /\ \A k \in 2..(j - 1) : ~IsCloseBracket(s[k])
              IN  RemoveBracketed(SubSeq(s, j + 1, Len(s)))
         ELSE <<Head(s)>> \o RemoveBracketed(Tail(s))

IsSpecialChar(c) == ~(IsWordChar(c) \/ IsSpace(c) \/ c = "-")

KeptChar(c) == ~IsSpecialChar(c)

\* re.sub(r'[^\w\s-]', '', name)
RemoveSpecial(s) == SelectSeq(s, KeptChar)

IsSeparator(c) == c = "-" \/ IsSpace(c)

\* re.sub(r'[-\s]+', ' ', name)
RECURSIVE CollapseSeparators(_)
CollapseSeparators(s) ==
    IF s = <<>> THEN <<>>
    ELSE IF IsSeparator(Head(s))
         THEN IF Len(s) > 1 /\ IsSeparator(s[2])
              THEN CollapseSeparators(Tail(s))
              ELSE <<" ">> \o CollapseSeparators(Tail(s))
         ELSE <<Head(s)>> \o CollapseSeparators(Tail(s))

_normalize_book_name(name) ==
    IF name = <<>> THEN <<>>
    ELSE Strip(StripSuffixes(CollapseSeparators(RemoveSpecial(RemoveBracketed(
             StripPrefixes(Lower(name), 1)))), 1))

\* ------------------------------------------------------------------------
\* BookLibraryOrganizer._metadata_completeness_score
\* ------------------------------------------------------------------------

\* ['unknown', 'various', 'anonymous']
placeholder_authors == { <<"u", "n", "k", "n", "o", "w", "n">>,
                         <<"v", "a", "r", "i", "o", "u", "s">>,
                         <<"a", "n", "o", "n", "y", "m", "o", "u", "s">> }

_metadata_completeness_score(book) ==
    LET author_score ==
            IF book.author # <<>>
            THEN 2 + (IF WordCount(book.author) > 1 THEN 1 ELSE 0)
                   + (IF ~\E x \in placeholder_authors : Contains(Lower(book.author), x)
                      THEN 1 ELSE 0)
            ELSE 0
        year_score ==
            IF book.year # <<>> /\ IsDigitStr(book.year)
               /\ 1900 <= ToInt(book.year) /\ ToInt(book.year) <= 2024
            THEN 2 ELSE 0
        title_score ==
            IF book.name # <<>>
            THEN 1 + (IF ~EndsWith(book.name, <<".", "p", "d", "f">>) THEN 1 ELSE 0)
                   + (IF WordCount(book.name) > 2 THEN 1 ELSE 0)
            ELSE 0
        extra_score ==
            (IF book.subject # <<>> THEN 1 ELSE 0) + (IF book.keywords # <<>> THEN 1 ELSE 0)
    IN  author_score + year_score + title_score + extra_score

\* ------------------------------------------------------------------------
\* The files of the library and what a worker extracts from each
\* (the dict built by _process_single_file: path, name, author, year, size,
\* page_count; it never sets subject or keywords)
\* ------------------------------------------------------------------------

FileInfo(path, name, author, year, size, page_count) ==
    [path |-> path, name |-> name, author |-> author, year |-> year,
     size |-> size, page_count |-> page_count, subject |-> <<>>, keywords |-> <<>>]

\* Python's None (a worker whose processing raised returns it)
None == [none |-> TRUE]

\* a year that is absent: None, which `or` treats like 0
NoYear == 0

Library == <<
    FileInfo(<<"a", "/", "p", "1", ".", "p", "d", "f">>, <<"t", "h", "e", " ", "p", "r", "a", "g", "m", "a", "t", "i", "c", " ", "p", "r", "o", "g", "r", "a", "m", "m", "e", "r">>, <<>>, <<>>, 1000, 50),
    FileInfo(<<"b", "/", "p", "2", ".", "p", "d", "f">>, <<"p", "r", "a", "g", "m", "a", "t", "i", "c", " ", "p", "r", "o", "g", "r", "a", "m", "m", "e", "r">>, <<>>, <<>>, 1000, 50),
    FileInfo(<<"c", "/", "y", ".", "p", "d", "f">>, <<"x">>, <<>>, <<>>, 1000, 50),
    FileInfo(<<"d", "/", "z", ".", "p", "d", "f">>, <<"x">>, <<"b", "o", "b">>, <<>>, 1000, 50),
    FileInfo(<<"e", "/", "w", ".", "p", "d", "f">>, <<"T", "h", "e", " ", "Y", " ", "(", "2", "n", "d", " ", "e", "d", ")">>, <<"A", "l", " ", "L", "e", "e">>, <<"2", "0", "0", "8">>, 1000, 50),
    FileInfo(<<"f", "/", "x", ".", "p", "d", "f">>, <<"q">>, <<>>, <<"D", ":", "2", "0">>, 1000, 50),
    FileInfo(<<"g", "/", "x", ".", "p", "d", "f">>, <<"x">>, <<>>, <<>>, 2000, 50),
    FileInfo(<<"h", "/", "v", ".", "p", "d", "f">>, <<"A", " ", "x">>, <<>>, <<>>, 1000, 50),
    None >>

Files == DOMAIN Library

\* _process_single_file(file_path): the file's dict, or None when processing raised
_process_single_file(f) == Library[f]

\* ------------------------------------------------------------------------
\* State
\* ------------------------------------------------------------------------

VARIABLES
    pdf_files,      \* analyze_library: the files _get_pdf_files found
    pending,        \* the files whose worker result imap_unordered has not yet yielded
    all_books,      \* analyze_library: the list all_books
    pc,             \* where analyze_library is: "collect", "find", "done" ("idle": not run)
    find_input,     \* _find_duplicates: its argument, the ordered list of books
    book_idx,       \* _find_duplicates: position of the for loop in its argument
    seen_books,     \* _find_duplicates: signature -> currently kept book
    duplicates,     \* _find_duplicates: the edges found so far
    matched_sig,    \* _find_duplicates: matched_sig of the last iteration
    analysis,       \* analyze_library: the report returned, None before
    prev_input,     \* the find_input of the previous run of the program
    prev_analysis,  \* the report of the previous run of the program, None before
    topic_patterns, \* BookAnalyzer.topic_patterns, as _load_topic_patterns returned it
    queue,          \* analyze_books: its argument books, by position
    stage,          \* per book: "queued", "processed" (its worker returned), "collected"
    result,         \* per book: what _process_single_book returned (None before it has)
    processed_books, \* analyze_books: the list processed_books
    report,         \* analyze_books: what it returned or that it raised (None before)
    call,           \* a function called on its own: its arguments (None: no call)
    ret,            \* what the call returned or that it raised (None before it ends)
    earlier         \* an earlier call and its outcome, kept to compare two calls

lib_vars == <<pdf_files, pending, all_books, pc, find_input, book_idx, seen_books,
              duplicates, matched_sig, analysis, prev_input, prev_analysis>>

an_vars == <<topic_patterns, queue, stage, result, processed_books, report>>

fn_vars == <<call, ret, earlier>>

vars == <<lib_vars, an_vars, fn_vars>>

\* the empty dict
EmptyDict == [s \in {} |-> None]

\* ------------------------------------------------------------------------
\* BookLibraryOrganizer._find_duplicates
\* ------------------------------------------------------------------------

\* names = {normalize(name), normalize(stem)} plus normalize(author + ' ' + name)
Names(book) ==
    {_normalize_book_name(book.name), _normalize_book_name(PathStem(book.path))}
    \cup (IF book.author # <<>> /\ book.name # <<>>
          THEN {_normalize_book_name(book.author \o <<" ">> \o book.name)}
          ELSE {})

\* signatures = {(size, page_count, name) for name in names}
Signatures(book) == {<<book.size, book.page_count, name>> : name \in Names(book)}

\* the signatures of the book that are in seen_books; the loop over the set
\* `signatures` stops at the first of them it meets, in the set's iteration order
Hits(seen, signatures) == signatures \cap DOMAIN seen

\* the comparison of the two scores the wrong way round
CurrentWinsWhenLower(book, matched_book) ==
    _metadata_completeness_score(book) < _metadata_completeness_score(matched_book)

\* the comparison that lets the incoming record win a tie
CurrentWinsOrTies(book, matched_book) ==
    _metadata_completeness_score(book) >= _metadata_completeness_score(matched_book)

\* if current_meta_score > existing_meta_score
CurrentWins(book, matched_book) ==
    _metadata_completeness_score(book) > _metadata_completeness_score(matched_book)

\* the book stored under its signatures with the size left out
StoreWithoutSize(seen, signatures, book) ==
    [s \in (DOMAIN seen) \cup {<<0, sig[2], sig[3]>> : sig \in signatures} |->
        IF s \in DOMAIN seen THEN seen[s] ELSE book]

\* for sig in signatures: seen_books[sig] = book
StoreSignatures(seen, signatures, book) ==
    [s \in (DOMAIN seen) \cup signatures |-> IF s \in signatures THEN book ELSE seen[s]]

\* {"original_path": current_path, "duplicate_path": existing_path}
EdgeCurrentKept(book, matched_book) ==
    [original_path |-> book.path, duplicate_path |-> matched_book.path]

\* an edge whose two ends are both existing_path
EdgeExistingTwice(book, matched_book) ==
    [original_path |-> matched_book.path, duplicate_path |-> matched_book.path]

\* {"original_path": existing_path, "duplicate_path": current_path}
EdgeExistingKept(book, matched_book) ==
    [original_path |-> matched_book.path, duplicate_path |-> book.path]

\* _find_duplicates called while worker results are still outstanding
FindDuplicatesBeforeAllCollected ==
    /\ pc = "collect"
    /\ pc' = "find"
    /\ find_input' = all_books
    /\ book_idx' = 1
    /\ seen_books' = EmptyDict
    /\ duplicates' = <<>>
    /\ matched_sig' = None
    /\ UNCHANGED <<pdf_files, pending, all_books, analysis, prev_input, prev_analysis>>
    /\ UNCHANGED an_vars
    /\ UNCHANGED fn_vars

\* the call _find_duplicates(all_books) once every worker result is collected
FindDuplicatesBegin ==
    /\ pc = "collect"
    /\ pending = {}
    /\ pc' = "find"
    /\ find_input' = all_books
    /\ book_idx' = 1
    /\ seen_books' = EmptyDict
    /\ duplicates' = <<>>
    /\ matched_sig' = None
    /\ UNCHANGED <<pdf_files, pending, all_books, analysis, prev_input, prev_analysis>>
    /\ UNCHANGED an_vars
    /\ UNCHANGED fn_vars

\* one iteration of `for book in all_books`
FindDuplicatesStep ==
    /\ pc = "find"
    /\ book_idx <= Len(find_input)
    /\ LET book == find_input[book_idx]
           signatures == Signatures(book)
           hits == Hits(seen_books, signatures)
       IN  IF hits # {}
           THEN \E sig \in hits :
                    LET matched_book == seen_books[sig]
                    IN  /\ matched_sig' = sig
                        /\ IF CurrentWins(book, matched_book)
                           THEN /\ duplicates' =
                                       Append(duplicates, EdgeCurrentKept(book, matched_book))
                                /\ seen_books' = StoreSignatures(seen_books, signatures, book)
                           ELSE /\ duplicates' =
                                       Append(duplicates, EdgeExistingKept(book, matched_book))
                                /\ seen_books' = seen_books
           ELSE /\ matched_sig' = None
                /\ duplicates' = duplicates
                /\ seen_books' = StoreSignatures(seen_books, signatures, book)
    /\ book_idx' = book_idx + 1
    /\ UNCHANGED <<pdf_files, pending, all_books, pc, find_input, analysis,
                   prev_input, prev_analysis>>
    /\ UNCHANGED an_vars
    /\ UNCHANGED fn_vars

\* ------------------------------------------------------------------------
\* BookLibraryOrganizer.analyze_library
\* ------------------------------------------------------------------------

\* for result in pool.imap_unordered(...): if result: all_books.append(file_info)
\* (the results arrive in the order the workers complete)
Collect(f) ==
    /\ pc = "collect"
    /\ f \in pending
    /\ pending' = pending \ {f}
    /\ all_books' = IF _process_single_file(f) # None
                    THEN Append(all_books, _process_single_file(f))
                    ELSE all_books
    /\ UNCHANGED <<pdf_files, pc, find_input, book_idx, seen_books, duplicates,
                   matched_sig, analysis, prev_input, prev_analysis>>
    /\ UNCHANGED an_vars
    /\ UNCHANGED fn_vars

\* duplicate_paths = {dup["duplicate_path"] for dup in duplicates}
DuplicatePaths(dups) == {dups[i].duplicate_path : i \in DOMAIN dups}

\* sorted(all_books, key=lambda x: x["path"])
RECURSIVE InsertByPath(_, _)
InsertByPath(book, sorted) ==
    IF sorted = <<>> THEN <<book>>
    ELSE IF StrLess(book.path, Head(sorted).path) THEN <<book>> \o sorted
    ELSE <<Head(sorted)>> \o InsertByPath(book, Tail(sorted))

RECURSIVE SortedByPath(_)
SortedByPath(books) ==
    IF books = <<>> THEN <<>>
    ELSE InsertByPath(books[Len(books)], SortedByPath(SubSeq(books, 1, Len(books) - 1)))

RECURSIVE SumOf(_, _)
SumOf(books, field) ==
    IF books = <<>> THEN 0 ELSE Head(books)[field] + SumOf(Tail(books), field)

\* _get_years_range: "Unknown", str(min_year) or f"{min_year}-{max_year}";
\* here <<>>, <<min_year>> or <<min_year, max_year>>
_get_years_range(books) ==
    LET years == {ToInt(books[i].year) : i \in {j \in DOMAIN books :
                      /\ books[j].year # <<>>
                      /\ IsDigitStr(books[j].year)
                      /\ 1900 <= ToInt(books[j].year)
                      /\ ToInt(books[j].year) <= 2024}}
        min_year == CHOOSE y \in years : \A z \in years : y <= z
        max_year == CHOOSE y \in years : \A z \in years : y >= z
    IN  IF years = {} THEN <<>>
        ELSE IF min_year = max_year THEN <<min_year>>
        ELSE <<min_year, max_year>>

\* a filter that also drops the originals of the edges
IsKeptWithoutEdge(dups, book) ==
    /\ book.path \notin DuplicatePaths(dups)
    /\ book.path \notin {dups[i].original_path : i \in DOMAIN dups}

IsKept(dups, book) == book.path \notin DuplicatePaths(dups)

\* all_books = [book for book in all_books if book["path"] not in duplicate_paths]
RemoveDuplicates(books, dups) ==
    LET Kept(book) == IsKept(dups, book) IN SelectSeq(books, Kept)

\* the end of analyze_library: _find_duplicates has returned; the duplicates are
\* removed, the statistics computed and the report built
Report ==
    /\ pc = "find"
    /\ book_idx > Len(find_input)
    /\ all_books' = RemoveDuplicates(all_books, duplicates)
    /\ analysis' =
         [summary |->
            [total_books |-> Len(all_books'),
             total_size_bytes |-> SumOf(all_books', "size"),
             total_pages |-> SumOf(all_books', "page_count"),
             unique_authors |-> Cardinality({all_books'[i].author :
                                   i \in {j \in DOMAIN all_books' :
                                             all_books'[j].author # <<>>}}),
             years_range |-> _get_years_range(all_books')],
          all_books |-> SortedByPath(all_books'),
          duplicates |-> duplicates]
    /\ pc' = "done"
    /\ UNCHANGED <<pdf_files, pending, find_input, book_idx, seen_books, duplicates,
                   matched_sig, prev_input, prev_analysis>>
    /\ UNCHANGED an_vars
    /\ UNCHANGED fn_vars

\* main() run once more on the same library: analyze_library starts afresh; the
\* list given to _find_duplicates and the report of the first run are remembered
RunAgain ==
    /\ pc = "done"
    /\ prev_analysis = None
    /\ prev_analysis' = analysis
    /\ prev_input' = find_input
    /\ pending' = pdf_files
    /\ all_books' = <<>>
    /\ pc' = "collect"
    /\ analysis' = None
    /\ find_input' = <<>>
    /\ book_idx' = 1
    /\ seen_books' = EmptyDict
    /\ duplicates' = <<>>
    /\ matched_sig' = None
    /\ UNCHANGED pdf_files
    /\ UNCHANGED an_vars
    /\ UNCHANGED fn_vars

\* ------------------------------------------------------------------------
\* The topic pattern table (topic -> subtopic -> list of regex patterns) and the
\* books given to BookAnalyzer.analyze_books
\* ------------------------------------------------------------------------

\* a pattern of the table: a regex that is a literal keyword, or
\* (is_regex = FALSE) a value re.search raises on: a string that does not
\* compile such as "(", or a value that is no string
Keyword(text) == [is_regex |-> TRUE, text |-> text]

BadPattern == [is_regex |-> FALSE, text |-> <<"(">>]

\* a subtopic's entry: its list of patterns (is_list = FALSE: the JSON value is
\* not iterable, e.g. a number)
SubtopicEntry(subtopic, patterns) ==
    [subtopic |-> subtopic, is_list |-> TRUE, patterns |-> patterns]

SubtopicNotList(subtopic) == [subtopic |-> subtopic, is_list |-> FALSE, patterns |-> <<>>]

\* a topic's entry: its subtopics (is_dict = FALSE: the JSON value is not an
\* object, e.g. a list of patterns)
TopicEntry(topic, subtopics) == [topic |-> topic, is_dict |-> TRUE, subtopics |-> subtopics]

TopicNotDict(topic) == [topic |-> topic, is_dict |-> FALSE, subtopics |-> <<>>]

kw_deep == <<"d", "e", "e", "p">>

kw_neural == <<"n", "e", "u", "r", "a", "l">>

kw_learn == <<"l", "e", "a", "r", "n">>

kw_graph == <<"g", "r", "a", "p", "h">>

\* the tables _load_topic_patterns may return: {} (file missing or not JSON), a
\* well-formed table, and tables that are partially invalid
PatternTables == {
    <<>>,
    << TopicEntry("Artificial Intelligence",
           << SubtopicEntry("Deep Learning", <<Keyword(kw_deep), Keyword(kw_neural)>>),
              SubtopicEntry("Machine Learning", <<Keyword(kw_learn)>>) >>),
       TopicEntry("Computer Science",
           << SubtopicEntry("Algorithms", <<Keyword(kw_graph)>>) >>) >>,
    << TopicEntry("Artificial Intelligence",
           << SubtopicEntry("Deep Learning", <<Keyword(kw_deep), BadPattern>>) >>) >>,
    << TopicNotDict("Artificial Intelligence"),
       TopicEntry("Computer Science",
           << SubtopicEntry("Algorithms", <<Keyword(kw_graph)>>) >>) >>,
    << TopicEntry("Artificial Intelligence",
           << SubtopicEntry("Deep Learning", <<Keyword(kw_deep)>>),
              SubtopicNotList("Machine Learning") >>) >> }

\* ------------------------------------------------------------------------
\* BookAnalyzer.determine_topics
\* ------------------------------------------------------------------------

\* the (topic, subtopic, patterns) entries of the well-formed topics, in the
\* order the nested loops over topic_patterns.items() visit them
RECURSIVE SubtopicPairs(_, _)
SubtopicPairs(topic, subtopics) ==
    IF subtopics = <<>> THEN <<>>
    ELSE <<[topic |-> topic, subtopic |-> Head(subtopics).subtopic,
            is_list |-> Head(subtopics).is_list, patterns |-> Head(subtopics).patterns]>>
         \o SubtopicPairs(topic, Tail(subtopics))

RECURSIVE TablePairs(_)
TablePairs(table) ==
    IF table = <<>> THEN <<>>
    ELSE SubtopicPairs(Head(table).topic, Head(table).subtopics) \o TablePairs(Tail(table))

\* re.search(pattern, text, re.I) for a literal keyword
re_search(pattern, text) == Contains(Lower(text), Lower(pattern.text))

\* any(re.search(pattern, text, re.I) for pattern in patterns) evaluates the
\* patterns in order and stops at the first that matches or raises: its position
FirstDeciding(patterns, text) ==
    LET deciding == {k \in DOMAIN patterns :
                        ~patterns[k].is_regex \/ re_search(patterns[k], text)}
    IN  IF deciding = {} THEN 0 ELSE CHOOSE k \in deciding : \A j \in deciding : k <= j

AnyMatches(patterns, text) ==
    FirstDeciding(patterns, text) # 0 /\ patterns[FirstDeciding(patterns, text)].is_regex

AnyRaises(patterns, text) ==
    FirstDeciding(patterns, text) # 0 /\ ~patterns[FirstDeciding(patterns, text)].is_regex

\* len(re.findall(pattern, text, re.I)): the non-overlapping occurrences from the left
RECURSIVE CountOccurrences(_, _)
CountOccurrences(text, word) ==
    IF Len(text) < Len(word) \/ word = <<>> THEN 0
    ELSE IF SubSeq(text, 1, Len(word)) = word
         THEN 1 + CountOccurrences(SubSeq(text, Len(word) + 1, Len(text)), word)
         ELSE CountOccurrences(Tail(text), word)

findall_count(pattern, text) == CountOccurrences(Lower(text), Lower(pattern.text))

\* content_sample = book.content[:int(len(book.content) * 0.2)]
ContentSample(book) == SubSeq(book.content, 1, Len(book.content) \div 5)

toc_heads == {<<"c", "o", "n", "t", "e", "n", "t", "s">>,
              <<"t", "a", "b", "l", "e", " ", "o", "f", " ", "c", "o", "n", "t", "e", "n", "t", "s">>}

toc_tails == {<<"c", "h", "a", "p", "t", "e", "r">>,
              <<"s", "e", "c", "t", "i", "o", "n">>}

StartsAt(text, i, word) ==
    i + Len(word) - 1 <= Len(text) /\ SubSeq(text, i, i + Len(word) - 1) = word

\* toc_match.group(0) of re.search(..., content_sample, re.I | re.S): from the
\* leftmost head that some tail follows, to the end of the nearest such tail
\* (.*? is lazy, and re.S lets it cross newlines); None if the search finds nothing
TocText(sample) ==
    LET text == Lower(sample)
        heads == {ih \in (DOMAIN text) \X toc_heads : StartsAt(text, ih[1], ih[2])}
        tails == {jt \in (DOMAIN text) \X toc_tails : StartsAt(text, jt[1], jt[2])}
        Follows(ih, jt) == jt[1] >= ih[1] + Len(ih[2])
        matching == {ih \in heads : \E jt \in tails : Follows(ih, jt)}
        first == CHOOSE ih \in matching : \A other \in matching : ih[1] <= other[1]
        nearest == CHOOSE jt \in tails :
                       /\ Follows(first, jt)
                       /\ \A other \in tails : Follows(first, other) => jt[1] <= other[1]
    IN  IF matching = {} THEN None
        ELSE SubSeq(text, first[1], nearest[1] + Len(nearest[2]) - 1)

HasContent(book) == book.content # <<>>

HasToc(book) == HasContent(book) /\ TocText(ContentSample(book)) # None

RECURSIVE SumOver(_, _, _)
SumOver(patterns, text, k) ==
    IF k > Len(patterns) THEN 0
    ELSE findall_count(patterns[k], text) + SumOver(patterns, text, k + 1)

\* the four additions to topic_scores[topic][subtopic], in tenths:
\* path 2.0, title 3.0, 0.5 per pattern found in the TOC, 0.1 per occurrence in
\* the content sample
PathScore(book, pair) == IF AnyMatches(pair.patterns, Lower(book.path)) THEN 20 ELSE 0

TitleScore(book, pair) == IF AnyMatches(pair.patterns, Lower(book.title)) THEN 30 ELSE 0

TocScore(book, pair) ==
    LET toc_text == TocText(ContentSample(book))
    IN  IF HasContent(book) /\ toc_text # None
        THEN 5 * Cardinality({k \in DOMAIN pair.patterns : re_search(pair.patterns[k], toc_text)})
        ELSE 0

ContentScore(book, pair) ==
    IF HasContent(book) THEN SumOver(pair.patterns, ContentSample(book), 1) ELSE 0

PairScore(book, pair) ==
    PathScore(book, pair) + TitleScore(book, pair) + TocScore(book, pair)
        + ContentScore(book, pair)

\* whether determine_topics raises before it reaches the selection: on a topic
\* whose value has no items(), on a subtopic whose value is not iterable, or
\* on a pattern re.search raises on, once a pass evaluates it
ScoringRaises(book, table) ==
    \/ \E t \in DOMAIN table : ~table[t].is_dict
    \/ \E i \in DOMAIN TablePairs(table) :
           LET pair == TablePairs(table)[i]
           IN  \/ ~pair.is_list
               \/ AnyRaises(pair.patterns, Lower(book.path))
               \/ AnyRaises(pair.patterns, Lower(book.title))
               \/ HasContent(book) /\ \E k \in DOMAIN pair.patterns :
                                         ~pair.patterns[k].is_regex

\* the positions (in TablePairs) of the pairs in the order the passes put them
\* into topic_scores: path matches, title matches, then every pair in the TOC
\* pass and in the content pass
Insertions(book, table) ==
    LET pairs == TablePairs(table)
        all == [i \in DOMAIN pairs |-> i]
        PathHit(i) == PathScore(book, pairs[i]) > 0
        TitleHit(i) == TitleScore(book, pairs[i]) > 0
    IN  SelectSeq(all, PathHit) \o SelectSeq(all, TitleHit)
        \o (IF HasToc(book) THEN all ELSE <<>>)
        \o (IF HasContent(book) THEN all ELSE <<>>)

\* the position of the first occurrence of x in seq
FirstPos(seq, x) == CHOOSE k \in DOMAIN seq : seq[k] = x /\ \A j \in 1..(k - 1) : seq[j] # x

\* the pairs of topic_scores in iteration order, given the insertions ins:
\* topics in the order of their first insertion, and within a topic its
\* subtopics in the order of theirs
IterationOrder(pairs, ins) ==
    LET topics == [k \in DOMAIN ins |-> pairs[ins[k]].topic]
        Before(i, j) ==
            \/ FirstPos(topics, pairs[i].topic) < FirstPos(topics, pairs[j].topic)
            \/ /\ pairs[i].topic = pairs[j].topic
               /\ FirstPos(ins, i) < FirstPos(ins, j)
    IN  [r \in 1..Cardinality(Range(ins)) |->
            CHOOSE i \in Range(ins) : Cardinality({j \in Range(ins) : Before(j, i)}) + 1 = r]

ScoredOrder(book, table) == IterationOrder(TablePairs(table), Insertions(book, table))

\* best_topic, best_subtopic, best_score after the loop `if score > best_score`
\* over topic_scores, from best_score = 0 and best_topic = best_subtopic = None
RECURSIVE SelectBest(_, _, _, _, _)
SelectBest(book, table, order, k, best) ==
    IF k > Len(order) THEN best
    ELSE LET pair == TablePairs(table)[order[k]]
             score == PairScore(book, pair)
         IN  SelectBest(book, table, order, k + 1,
                        IF score > best.score
                        THEN [topic |-> pair.topic, subtopic |-> pair.subtopic, score |-> score]
                        ELSE best)

NoTopic == "None"

Best(book, table) ==
    SelectBest(book, table, ScoredOrder(book, table), 1,
               [topic |-> NoTopic, subtopic |-> NoTopic, score |-> 0])

\* a threshold that also sends a score of exactly 1.0 to the fallback
BelowOrAtThreshold(best_score) == best_score <= 10

\* if best_score < 1.0 (in tenths)
BelowThreshold(best_score) == best_score < 10

\* ------------------------------------------------------------------------
\* BookAnalyzer._determine_fallback_topic
\* ------------------------------------------------------------------------

specific_patterns == <<
    [topic |-> "Computer Science", subtopic |-> "Algorithms",
     patterns |-> << <<"p", "r", "o", "b", "l", "e", "m", " ", "s", "o", "l", "v", "i", "n", "g">>,
                     <<"c", "o", "m", "p", "u", "t", "a", "t", "i", "o", "n", "a", "l", " ", "t", "h", "i", "n", "k", "i", "n", "g">>,
                     <<"a", "l", "g", "o", "r", "i", "t", "h", "m", "i", "c", " ", "t", "h", "i", "n", "k", "i", "n", "g">>,
                     <<"c", "o", "m", "p", "e", "t", "i", "t", "i", "v", "e", " ", "p", "r", "o", "g", "r", "a", "m", "m", "i", "n", "g">> >>],
    [topic |-> "Computer Science", subtopic |-> "Data Structures",
     patterns |-> << <<"d", "a", "t", "a", " ", "o", "r", "g", "a", "n", "i", "z", "a", "t", "i", "o", "n">>,
                     <<"d", "a", "t", "a", " ", "m", "a", "n", "a", "g", "e", "m", "e", "n", "t">>,
                     <<"m", "e", "m", "o", "r", "y", " ", "o", "r", "g", "a", "n", "i", "z", "a", "t", "i", "o", "n">> >>],
    [topic |-> "Computer Science", subtopic |-> "Computer Architecture",
     patterns |-> << <<"c", "o", "m", "p", "u", "t", "e", "r", " ", "o", "r", "g", "a", "n", "i", "z", "a", "t", "i", "o", "n">>,
                     <<"d", "i", "g", "i", "t", "a", "l", " ", "d", "e", "s", "i", "g", "n">>,
                     <<"c", "o", "m", "p", "u", "t", "e", "r", " ", "s", "y", "s", "t", "e", "m">> >>] >>

\* any(re.search(pattern, book.title, re.I) for pattern in patterns)
SpecificHit(title, entry) ==
    \E k \in DOMAIN entry.patterns : Contains(Lower(title), entry.patterns[k])

\* str(book.path).lower().split('/')
RECURSIVE SplitOnSlash(_)
SplitOnSlash(p) ==
    IF "/" \notin Range(p) THEN <<p>>
    ELSE LET i == CHOOSE i \in DOMAIN p : p[i] = "/" /\ \A j \in 1..(i - 1) : p[j] # "/"
         IN  <<SubSeq(p, 1, i - 1)>> \o SplitOnSlash(SubSeq(p, i + 1, Len(p)))

\* what a path part maps to, NoTopic if to nothing
PartTopic(part) ==
    IF Contains(part, <<"a", "l", "g", "o", "r", "i", "t", "h", "m">>)
    THEN "Algorithms"
    ELSE IF Contains(part, <<"d", "a", "t", "a">>) /\ Contains(part, <<"s", "t", "r", "u", "c", "t">>)
    THEN "Data Structures"
    ELSE IF Contains(part, <<"a", "r", "c", "h">>) \/ Contains(part, <<"s", "y", "s", "t", "e", "m">>)
    THEN "Computer Architecture"
    ELSE NoTopic

\* set(re.findall(r'\w+', book.title.lower())): the maximal runs of word characters
TitleWords(title) ==
    LET t == Lower(title)
        starts == {i \in DOMAIN t : IsWordChar(t[i]) /\ (i = 1 \/ ~IsWordChar(t[i - 1]))}
        RunEnd(i) == CHOOSE j \in i..Len(t) :
                         /\ j = Len(t) \/ ~IsWordChar(t[j + 1])
                         /\ \A k \in i..j : IsWordChar(t[k])
    IN  {SubSeq(t, i, RunEnd(i)) : i \in starts}

\* the pair returned when nothing else applies, with a different value
CatchAllGeneral == <<"Computer Science", "General">>

\* return [("Computer Science", "Theory")]
CatchAll == <<"Computer Science", "Theory">>

_determine_fallback_topic(book) ==
    LET hits == {e \in DOMAIN specific_patterns : SpecificHit(book.title, specific_patterns[e])}
        first_hit == CHOOSE e \in hits : \A f \in hits : e <= f
        parts == SplitOnSlash(Lower(book.path))
        mapped == {k \in DOMAIN parts : PartTopic(parts[k]) # NoTopic}
        first_part == CHOOSE k \in mapped : \A j \in mapped : k <= j
        words == TitleWords(book.title)
    IN  IF hits # {}
        THEN << <<specific_patterns[first_hit].topic, specific_patterns[first_hit].subtopic>> >>
        ELSE IF mapped # {}
        THEN << <<"Computer Science", PartTopic(parts[first_part])>> >>
        ELSE IF words \cap {<<"a", "l", "g", "o", "r", "i", "t", "h", "m">>,
                            <<"c", "o", "m", "p", "u", "t", "a", "t", "i", "o", "n", "a", "l">>} # {}
        THEN << <<"Computer Science", "Algorithms">> >>
        ELSE IF words \cap {<<"d", "a", "t", "a">>,
                            <<"s", "t", "r", "u", "c", "t", "u", "r", "e">>} # {}
        THEN << <<"Computer Science", "Data Structures">> >>
        ELSE <<CatchAll>>

\* how a call ends: it raises, or it returns a value
Raise == [raised |-> TRUE, value |-> <<>>]

Return(value) == [raised |-> FALSE, value |-> value]

\* if best_score < 1.0: return self._determine_fallback_topic(book)
\* return [(best_topic, best_subtopic)]
SelectedOrFallback(book, best) ==
    IF BelowThreshold(best.score)
    THEN Return(_determine_fallback_topic(book))
    ELSE Return(<< <<best.topic, best.subtopic>> >>)

\* determine_topics(book): it has no try of its own, so what the scoring raises
\* leaves it; otherwise it returns the fallback's list or [(best_topic, best_subtopic)]
determine_topics(book, table) ==
    IF ScoringRaises(book, table) THEN Raise
    ELSE SelectedOrFallback(book, Best(book, table))

\* ------------------------------------------------------------------------
\* Regular expressions (module re), for the patterns the code uses
\* ------------------------------------------------------------------------

\* the pieces of a pattern: a literal string, one character of a class, an
\* optional character of a class ([s]? and .?), a run of a class (\s+ \d+ \s*),
\* \b, one of several literal words, and the anchors
Lit(s) == [k |-> "lit", s |-> s, set |-> {}, words |-> {}]

OneOf(set) == [k |-> "one", s |-> <<>>, set |-> set, words |-> {}]

Opt(set) == [k |-> "opt", s |-> <<>>, set |-> set, words |-> {}]

OptAny == [k |-> "optany", s |-> <<>>, set |-> {}, words |-> {}]

Plus(set) == [k |-> "plus", s |-> <<>>, set |-> set, words |-> {}]

Star(set) == [k |-> "star", s |-> <<>>, set |-> set, words |-> {}]

WordB == [k |-> "b", s |-> <<>>, set |-> {}, words |-> {}]

Alt(words) == [k |-> "alt", s |-> <<>>, set |-> {}, words |-> words]

BolOrNl == [k |-> "bol_or_nl", s |-> <<>>, set |-> {}, words |-> {}]

Bol == [k |-> "bol", s |-> <<>>, set |-> {}, words |-> {}]

Eol == [k |-> "eol", s |-> <<>>, set |-> {}, words |-> {}]

\* the classes \s and \d
SpaceChars == {" ", "\n", "\t"}

DigitSet == Range(DigitChars)

IsWordAt(text, i) == i \in DOMAIN text /\ IsWordChar(text[i])

\* the positions a piece can end at when it starts at position p (the index of
\* the next character to read, 1..Len(text) + 1)
Step(piece, text, p) ==
    CASE piece.k = "lit" -> IF StartsAt(text, p, piece.s) THEN {p + Len(piece.s)} ELSE {}
      [] piece.k = "one" -> IF p \in DOMAIN text /\ text[p] \in piece.set THEN {p + 1} ELSE {}
      [] piece.k = "opt" ->
             {p} \cup (IF p \in DOMAIN text /\ text[p] \in piece.set THEN {p + 1} ELSE {})
      [] piece.k = "optany" ->
             {p} \cup (IF p \in DOMAIN text /\ text[p] # "\n" THEN {p + 1} ELSE {})
      [] piece.k = "plus" ->
             {q \in (p + 1)..(Len(text) + 1) : \A j \in p..(q - 1) : text[j] \in piece.set}
      [] piece.k = "star" ->
             {q \in p..(Len(text) + 1) : \A j \in p..(q - 1) : text[j] \in piece.set}
      [] piece.k = "b" -> IF IsWordAt(text, p - 1) # IsWordAt(text, p) THEN {p} ELSE {}
      [] piece.k = "alt" -> {p + Len(w) : w \in {v \in piece.words : StartsAt(text, p, v)}}
      [] piece.k = "bol_or_nl" ->
             (IF p = 1 THEN {p} ELSE {})
             \cup (IF p \in DOMAIN text /\ text[p] = "\n" THEN {p + 1} ELSE {})
      [] piece.k = "bol" -> IF p = 1 THEN {p} ELSE {}
      [] piece.k = "eol" ->
             IF p = Len(text) + 1 \/ (p = Len(text) /\ text[p] = "\n") THEN {p} ELSE {}

\* the positions the pieces from the k-th on can end at, started at one of starts
RECURSIVE MatchEnds(_, _, _, _)
MatchEnds(pieces, k, text, starts) ==
    IF k > Len(pieces) \/ starts = {} THEN starts
    ELSE MatchEnds(pieces, k + 1, text, UNION {Step(pieces[k], text, p) : p \in starts})

\* re.search(pattern, text) is not None, for a pattern given as its alternatives
regex_search(alternatives, text) ==
    \E a \in DOMAIN alternatives :
        \E p \in 1..(Len(text) + 1) : MatchEnds(alternatives[a], 1, text, {p}) # {}

\* re.search(pattern, text, re.IGNORECASE), for a pattern without upper case
regex_search_i(alternatives, text) == regex_search(alternatives, Lower(text))

\* \bword\b
WholeWord(word) == << <<WordB, Lit(word), WordB>> >>

\* ------------------------------------------------------------------------
\* BookAnalyzer._clean_filename and BookAnalyzer._clean_title
\* ------------------------------------------------------------------------

\* str.upper() of a character
UpperChar(c) == IF c \in Range(LowerLetters) THEN UpperLetters[IndexIn(c, LowerLetters)] ELSE c

\* s.replace(old, new), for a non-empty old
RECURSIVE ReplaceAll(_, _, _)
ReplaceAll(s, old, new) ==
    IF s = <<>> THEN <<>>
    ELSE IF StartsWith(s, old)
         THEN new \o ReplaceAll(SubSeq(s, Len(old) + 1, Len(s)), old, new)
         ELSE <<Head(s)>> \o ReplaceAll(Tail(s), old, new)

\* re.sub(r'\s+', ' ', s)
RECURSIVE CollapseSpaces(_)
CollapseSpaces(s) ==
    IF s = <<>> THEN <<>>
    ELSE IF IsSpace(Head(s))
         THEN <<" ">> \o CollapseSpaces(LStrip(s))
         ELSE <<Head(s)>> \o CollapseSpaces(Tail(s))

\* s.split(): the maximal runs of non-whitespace characters
RECURSIVE Split(_)
Split(s) ==
    LET t == LStrip(s)
    IN  IF t = <<>> THEN <<>>
        ELSE LET n == IF \E i \in DOMAIN t : IsSpace(t[i])
                      THEN (CHOOSE i \in DOMAIN t :
                               IsSpace(t[i]) /\ \A j \in 1..(i - 1) : ~IsSpace(t[j])) - 1
                      ELSE Len(t)
             IN  <<SubSeq(t, 1, n)>> \o Split(SubSeq(t, n + 1, Len(t)))

\* ' '.join(words)
RECURSIVE Join(_)
Join(words) ==
    IF words = <<>> THEN <<>>
    ELSE IF Len(words) = 1 THEN words[1]
    ELSE words[1] \o <<" ">> \o Join(Tail(words))

\* the text with the leading characters of a class removed
RECURSIVE DropWhileIn(_, _)
DropWhileIn(s, set) ==
    IF s # <<>> /\ Head(s) \in set THEN DropWhileIn(Tail(s), set) ELSE s

\* str(filename).replace('\\', '/').split('/')[-1]
LastComponent(filename) == PathName(ReplaceAll(filename, <<"\\">>, <<"/">>))

\* re.sub(r'^file:///.*?/', '', filename)
RemoveFileUrl(filename) ==
    LET scheme == <<"f", "i", "l", "e", ":", "/", "/", "/">>
    IN  IF StartsWith(filename, scheme)
           /\ \E i \in (Len(scheme) + 1)..Len(filename) : filename[i] = "/"
        THEN SubSeq(filename,
                    (CHOOSE i \in (Len(scheme) + 1)..Len(filename) :
                        /\ filename[i] = "/"
                        /\ \A j \in (Len(scheme) + 1)..(i - 1) : filename[j] # "/") + 1,
                    Len(filename))
        ELSE filename

\* the file prefixes of r'^(?:book_|ebook_|doc_)'
file_prefixes == {<<"b", "o", "o", "k", "_">>, <<"e", "b", "o", "o", "k", "_">>, <<"d", "o", "c", "_">>}

\* the file extensions of r'\.(?:pdf|epub|mobi|dvi|djvu|html?|txt)$'
file_extensions == {<<".", "p", "d", "f">>, <<".", "e", "p", "u", "b">>, <<".", "m", "o", "b", "i">>, <<".", "d", "v", "i">>, <<".", "d", "j", "v", "u">>, <<".", "h", "t", "m">>, <<".", "h", "t", "m", "l">>, <<".", "t", "x", "t">>}

\* re.sub(r'^(?:book_|ebook_|doc_)', '', filename, flags=re.I)
RemoveFilePrefix(filename) ==
    IF \E p \in file_prefixes : StartsWith(Lower(filename), p)
    THEN SubSeq(filename,
                Len(CHOOSE p \in file_prefixes : StartsWith(Lower(filename), p)) + 1,
                Len(filename))
    ELSE filename

\* re.sub(r'\.(?:pdf|epub|mobi|dvi|djvu|html?|txt)$', '', filename, flags=re.I)
RemoveExtension(filename) ==
    IF \E e \in file_extensions : EndsWith(Lower(filename), e)
    THEN SubSeq(filename, 1,
                Len(filename) - Len(CHOOSE e \in file_extensions : EndsWith(Lower(filename), e)))
    ELSE filename

_clean_filename(filename) ==
    Strip(CollapseSpaces(ReplaceAll(
        RemoveExtension(RemoveFilePrefix(ReplaceAll(
            RemoveFileUrl(LastComponent(filename)), <<"%", "2", "0">>, <<" ">>))),
        <<"_">>, <<" ">>)))

\* the words of r'(?i)^(?:a|the|an)\s+'
leading_articles == {<<"a">>, <<"t", "h", "e">>, <<"a", "n">>}

\* the words of r'(?i)^(?:abook|ebook|book|document|manual|guide)[_\s.-]*'
leading_doc_words == {<<"a", "b", "o", "o", "k">>, <<"e", "b", "o", "o", "k">>, <<"b", "o", "o", "k">>, <<"d", "o", "c", "u", "m", "e", "n", "t">>, <<"m", "a", "n", "u", "a", "l">>, <<"g", "u", "i", "d", "e">>}

\* re.sub(r'(?i)^(?:a|the|an)\s+', '', title)
RemoveLeadingArticle(title) ==
    LET found == {w \in leading_articles :
                     /\ StartsWith(Lower(title), w)
                     /\ Len(title) > Len(w)
                     /\ IsSpace(title[Len(w) + 1])}
    IN  IF found = {} THEN title
        ELSE LStrip(SubSeq(title, Len(CHOOSE w \in found : TRUE) + 1, Len(title)))

\* re.sub(r'(?i)^(?:abook|ebook|book|document|manual|guide)[_\s.-]*', '', title)
RemoveLeadingDocWord(title) ==
    LET found == {w \in leading_doc_words : StartsWith(Lower(title), w)}
    IN  IF found = {} THEN title
        ELSE DropWhileIn(SubSeq(title, Len(CHOOSE w \in found : TRUE) + 1, Len(title)),
                         {"_", " ", ".", "-"})

\* r'(?i)\s*[\[(](?:(?:\d+(?:st|nd|rd|th)?\s*)?edition|ver?\.?\s*\d+[\.\d]*|v\d+)[\])]'
edition_pattern == <<
    <<Star(SpaceChars), OneOf({"[", "("}), Plus(DigitSet),
      Alt({<<>>, <<"s", "t">>, <<"n", "d">>, <<"r", "d">>, <<"t", "h">>}),
      Star(SpaceChars), Lit(<<"e", "d", "i", "t", "i", "o", "n">>), OneOf({"]", ")"})>>,
    <<Star(SpaceChars), OneOf({"[", "("}), Lit(<<"e", "d", "i", "t", "i", "o", "n">>), OneOf({"]", ")"})>>,
    <<Star(SpaceChars), OneOf({"[", "("}), Lit(<<"v", "e">>), Opt({"r"}), Opt({"."}),
      Star(SpaceChars), Plus(DigitSet), Star(DigitSet \cup {"."}), OneOf({"]", ")"})>>,
    <<Star(SpaceChars), OneOf({"[", "("}), Lit(<<"v">>), Plus(DigitSet), OneOf({"]", ")"})>> >>

\* the positions a match of the pattern that starts at p can end at
EndsFrom(alternatives, text, p) ==
    UNION {MatchEnds(alternatives[a], 1, text, {p}) : a \in DOMAIN alternatives}

\* re.sub(pattern, '', text, flags=re.I) from position p on, for a pattern whose
\* matches are not empty and end at one position only: the matches are taken
\* from the left and do not overlap
RECURSIVE RemoveMatches(_, _, _)
RemoveMatches(alternatives, text, p) ==
    IF p > Len(text) THEN <<>>
    ELSE LET ends == EndsFrom(alternatives, Lower(text), p)
         IN  IF ends # {}
             THEN RemoveMatches(alternatives, text, CHOOSE e \in ends : \A f \in ends : f <= e)
             ELSE <<text[p]>> \o RemoveMatches(alternatives, text, p + 1)

\* {'a', 'an', 'and', 'as', 'at', 'but', 'by', 'for', 'if', 'in', 'of', 'on',
\*  'or', 'the', 'to', 'via', 'with'}
small_words == {<<"a">>, <<"a", "n">>, <<"a", "n", "d">>, <<"a", "s">>, <<"a", "t">>, <<"b", "u", "t">>, <<"b", "y">>, <<"f", "o", "r">>, <<"i", "f">>, <<"i", "n">>, <<"o", "f">>, <<"o", "n">>, <<"o", "r">>, <<"t", "h", "e">>, <<"t", "o">>, <<"v", "i", "a">>, <<"w", "i", "t", "h">>}

\* word.capitalize()
Capitalize(word) ==
    [i \in DOMAIN word |-> IF i = 1 THEN UpperChar(word[i]) ELSE LowerChar(word[i])]

\* the first and the last word and every word that is not a small word are
\* capitalized, the other words are lower-cased
CapitalizeWords(words) ==
    [i \in DOMAIN words |->
        IF i = 1 \/ i = Len(words) \/ Lower(words[i]) \notin small_words
        THEN Capitalize(words[i])
        ELSE Lower(words[i])]

\* the abbreviations, in the order of the dict: the word and its replacement
abbreviations == <<<<<<"a", "i">>, <<"A", "I">>>>,
                   <<<<"m", "l">>, <<"M", "L">>>>,
                   <<<<"n", "l", "p">>, <<"N", "L", "P">>>>,
                   <<<<"a", "p", "i">>, <<"A", "P", "I">>>>,
                   <<<<"s", "q", "l">>, <<"S", "Q", "L">>>>,
                   <<<<"n", "o", "s", "q", "l">>, <<"N", "o", "S", "Q", "L">>>>,
                   <<<<"j", "a", "v", "a", "s", "c", "r", "i", "p", "t">>, <<"J", "a", "v", "a", "S", "c", "r", "i", "p", "t">>>>,
                   <<<<"t", "y", "p", "e", "s", "c", "r", "i", "p", "t">>, <<"T", "y", "p", "e", "S", "c", "r", "i", "p", "t">>>>,
                   <<<<"p", "h", "p">>, <<"P", "H", "P">>>>,
                   <<<<"c", "s", "s">>, <<"C", "S", "S">>>>,
                   <<<<"h", "t", "m", "l">>, <<"H", "T", "M", "L">>>>>>

\* re.sub(r'(?i)\bword\b', replacement, text), from position p on
RECURSIVE ReplaceWord(_, _, _, _)
ReplaceWord(text, word, replacement, p) ==
    IF p > Len(text) THEN <<>>
    ELSE IF /\ StartsAt(Lower(text), p, word)
            /\ ~IsWordAt(text, p - 1)
            /\ ~IsWordAt(text, p + Len(word))
         THEN replacement \o ReplaceWord(text, word, replacement, p + Len(word))
         ELSE <<text[p]>> \o ReplaceWord(text, word, replacement, p + 1)

\* for pattern, replacement in abbreviations.items(): title = re.sub(...)
RECURSIVE FixAbbreviations(_, _)
FixAbbreviations(title, k) ==
    IF k > Len(abbreviations) THEN title
    ELSE FixAbbreviations(ReplaceWord(title, abbreviations[k][1], abbreviations[k][2], 1), k + 1)

\* the title after the words were capitalized
Capitalized(title) ==
    IF Split(title) = <<>> THEN <<>>
    ELSE Strip(FixAbbreviations(Join(CapitalizeWords(Split(title))), 1))

_clean_title(title) ==
    IF title = <<>> THEN <<>>
    ELSE Capitalized(RemoveMatches(edition_pattern,
             RemoveLeadingDocWord(RemoveLeadingArticle(_clean_filename(title))), 1))

\* ------------------------------------------------------------------------
\* BookAnalyzer.determine_difficulty
\* ------------------------------------------------------------------------

complexity_indicators == <<
    [level |-> "easy",
     patterns |-> <<
         << <<Lit(<<"b", "e", "g", "i", "n", "n", "e", "r">>)>>,
            <<Lit(<<"b", "a", "s", "i", "c">>)>>,
            <<Lit(<<"i", "n", "t", "r", "o", "d", "u", "c", "t", "i", "o", "n">>)>>,
            <<Lit(<<"p", "r", "i", "m", "e", "r">>)>> >>,
         << <<Lit(<<"g", "e", "t", "t", "i", "n", "g">>), OptAny,
               Lit(<<"s", "t", "a", "r", "t", "e", "d">>)>>,
            <<Lit(<<"l", "e", "a", "r", "n">>)>>,
            <<Lit(<<"s", "i", "m", "p", "l", "e">>)>> >>,
         << <<Lit(<<"f", "u", "n", "d", "a", "m", "e", "n", "t", "a", "l", "s">>)>>,
            <<Lit(<<"b", "a", "s", "i", "c", "s">>)>>,
            <<Lit(<<"e", "s", "s", "e", "n", "t", "i", "a", "l">>)>> >> >>],
    [level |-> "moderate",
     patterns |-> <<
         << <<Lit(<<"i", "n", "t", "e", "r", "m", "e", "d", "i", "a", "t", "e">>)>>,
            <<Lit(<<"p", "r", "a", "c", "t", "i", "c", "a", "l">>)>>,
            <<Lit(<<"h", "a", "n", "d", "b", "o", "o", "k">>)>> >>,
         << <<Lit(<<"g", "u", "i", "d", "e">>)>>,
            <<Lit(<<"d", "e", "v", "e", "l", "o", "p", "m", "e", "n", "t">>)>>,
            <<Lit(<<"i", "m", "p", "l", "e", "m", "e", "n", "t", "a", "t", "i", "o", "n">>)>> >>,
         << <<Lit(<<"c", "o", "o", "k", "b", "o", "o", "k">>)>>,
            <<Lit(<<"p", "a", "t", "t", "e", "r", "n", "s">>)>>,
            <<Lit(<<"p", "r", "a", "c", "t", "i", "c", "e", "s">>)>> >> >>],
    [level |-> "hard",
     patterns |-> <<
         << <<Lit(<<"a", "d", "v", "a", "n", "c", "e", "d">>)>>,
            <<Lit(<<"m", "a", "s", "t", "e", "r", "i", "n", "g">>)>>,
            <<Lit(<<"c", "o", "m", "p", "l", "e", "t", "e">>)>> >>,
         << <<Lit(<<"a", "r", "c", "h", "i", "t", "e", "c", "t", "u", "r", "e">>)>>,
            <<Lit(<<"d", "e", "s", "i", "g", "n">>)>>,
            <<Lit(<<"p", "r", "i", "n", "c", "i", "p", "l", "e", "s">>)>> >>,
         << <<Lit(<<"p", "e", "r", "f", "o", "r", "m", "a", "n", "c", "e">>)>>,
            <<Lit(<<"o", "p", "t", "i", "m", "i", "z", "a", "t", "i", "o", "n">>)>> >> >>],
    [level |-> "extreme",
     patterns |-> <<
         << <<Lit(<<"t", "h", "e", "o", "r", "e", "t", "i", "c", "a", "l">>)>>,
            <<Lit(<<"t", "h", "e", "o", "r", "y">>)>>,
            <<Lit(<<"a", "c", "a", "d", "e", "m", "i", "c">>)>> >>,
         << <<Lit(<<"f", "o", "r", "m", "a", "l">>), OptAny,
               Lit(<<"m", "e", "t", "h", "o", "d", "s">>)>>,
            <<Lit(<<"c", "o", "m", "p", "u", "t", "a", "t", "i", "o", "n">>)>> >>,
         << <<Lit(<<"d", "i", "s", "t", "r", "i", "b", "u", "t", "e", "d">>)>>,
            <<Lit(<<"c", "o", "n", "c", "u", "r", "r", "e", "n", "t">>)>>,
            <<Lit(<<"p", "a", "r", "a", "l", "l", "e", "l">>)>> >> >>] >>

\* levels that add nothing
NoLevelDelta(level) == 0

\* the deltas of the levels
LevelDelta(level) ==
    CASE level = "easy" -> -2
      [] level = "moderate" -> 0
      [] level = "hard" -> 2
      [] level = "extreme" -> 4

\* some pattern of the level is found in title_lower
LevelMatches(indicator, title_lower) ==
    \E p \in DOMAIN indicator.patterns : regex_search(indicator.patterns[p], title_lower)

\* a scan of the levels that ends at the first level with a matching pattern
RECURSIVE FirstLevelOnly(_, _)
FirstLevelOnly(title_lower, l) ==
    IF l > Len(complexity_indicators) THEN 0
    ELSE IF LevelMatches(complexity_indicators[l], title_lower)
         THEN LevelDelta(complexity_indicators[l].level)
         ELSE FirstLevelOnly(title_lower, l + 1)

\* for level, patterns in complexity_indicators.items(): for pattern in patterns:
\* if re.search(pattern, title_lower): score += delta; break
\* (the break leaves the loop over the patterns of the level; the loop over the
\* levels goes on)
RECURSIVE TitleDelta(_, _)
TitleDelta(title_lower, l) ==
    IF l > Len(complexity_indicators) THEN 0
    ELSE (IF LevelMatches(complexity_indicators[l], title_lower)
          THEN LevelDelta(complexity_indicators[l].level)
          ELSE 0)
         + TitleDelta(title_lower, l + 1)

\* topic_complexity[topic][subtopic], 0 when the pair is not in the table
topic_complexity(topic, subtopic) ==
    CASE topic = "Computer Science" /\ subtopic \in {"Theory", "Compilers"} -> 3
      [] topic = "Computer Science"
         /\ subtopic \in {"Algorithms", "Data Structures", "Operating Systems"} -> 2
      [] topic = "Artificial Intelligence" /\ subtopic = "Deep Learning" -> 3
      [] topic = "Artificial Intelligence"
         /\ subtopic \in {"Machine Learning", "Statistics"} -> 2
      [] OTHER -> 0

\* for topic, subtopic in book.topics: score += topic_complexity[topic][subtopic]
RECURSIVE TopicBonus(_)
TopicBonus(topics) ==
    IF topics = <<>> THEN 0
    ELSE topic_complexity(Head(topics)[1], Head(topics)[2]) + TopicBonus(Tail(topics))

PageImpact(page_count) ==
    IF page_count > 600 THEN 2
    ELSE IF page_count > 400 THEN 1
    ELSE IF page_count < 200 THEN -1
    ELSE 0

\* the final score of determine_difficulty
DifficultyScore(book) ==
    TitleDelta(Lower(book.title), 1) + TopicBonus(book.topics) + PageImpact(book.page_count)

\* a mapping with the thresholds one lower
LevelOfBelow(score) ==
    IF score < -2 THEN "easy"
    ELSE IF score < 1 THEN "moderate"
    ELSE IF score < 3 THEN "hard"
    ELSE "extreme"

\* Map final score to difficulty levels
LevelOf(score) ==
    IF score <= -2 THEN "easy"
    ELSE IF score <= 1 THEN "moderate"
    ELSE IF score <= 3 THEN "hard"
    ELSE "extreme"

determine_difficulty(book) == LevelOf(DifficultyScore(book))

\* ------------------------------------------------------------------------
\* BookAnalyzer._rate_book and its five indicators (scores in tenths)
\* ------------------------------------------------------------------------

\* book.year is None (`if not book.year` also takes 0 for absent)
current_year == 2024

_calculate_recency_score(book) ==
    IF book.year = NoYear THEN 0
    ELSE LET age == current_year - book.year
         IN  IF age <= 1 THEN 10
             ELSE IF age <= 3 THEN 8
             ELSE IF age <= 5 THEN 6
             ELSE IF age <= 7 THEN 4
             ELSE IF age <= 10 THEN 2
             ELSE 0

_calculate_comprehensiveness_score(book) ==
    IF book.page_count > 600 THEN 10
    ELSE IF book.page_count > 400 THEN 8
    ELSE IF book.page_count > 300 THEN 6
    ELSE IF book.page_count > 200 THEN 4
    ELSE IF book.page_count > 100 THEN 2
    ELSE 0

reputable_publishers == <<
    [pub |-> <<"o", "r", "e", "i", "l", "l", "y">>,
     value |-> 9],
    [pub |-> <<"a", "d", "d", "i", "s", "o", "n", " ", "w", "e", "s", "l", "e", "y">>,
     value |-> 9],
    [pub |-> <<"m", "a", "n", "n", "i", "n", "g">>,
     value |-> 8],
    [pub |-> <<"a", "p", "r", "e", "s", "s">>,
     value |-> 7],
    [pub |-> <<"p", "a", "c", "k", "t">>,
     value |-> 6],
    [pub |-> <<"s", "p", "r", "i", "n", "g", "e", "r">>,
     value |-> 8],
    [pub |-> <<"p", "e", "a", "r", "s", "o", "n">>,
     value |-> 7],
    [pub |-> <<"m", "i", "c", "r", "o", "s", "o", "f", "t", " ", "p", "r", "e", "s", "s">>,
     value |-> 8],
    [pub |-> <<"w", "i", "l", "e", "y">>,
     value |-> 7],
    [pub |-> <<"m", "c", "g", "r", "a", "w", " ", "h", "i", "l", "l">>,
     value |-> 7],
    [pub |-> <<"a", "c", "a", "d", "e", "m", "i", "c", " ", "p", "r", "e", "s", "s">>,
     value |-> 8],
    [pub |-> <<"c", "a", "m", "b", "r", "i", "d", "g", "e">>,
     value |-> 9],
    [pub |-> <<"m", "i", "t", " ", "p", "r", "e", "s", "s">>,
     value |-> 9] >>

academic_indicators == <<
    WholeWord(<<"r", "e", "f", "e", "r", "e", "n", "c", "e">>),
    WholeWord(<<"t", "h", "e", "o", "r", "e", "m">>),
    WholeWord(<<"p", "r", "o", "o", "f">>),
    WholeWord(<<"l", "e", "m", "m", "a">>),
    << <<WordB, Lit(<<"c", "i", "t", "a", "t", "i", "o", "n">>), Opt({"s"}), WordB>> >>,
    WholeWord(<<"r", "e", "f", "e", "r", "e", "n", "c", "e", "s">>),
    WholeWord(<<"b", "i", "b", "l", "i", "o", "g", "r", "a", "p", "h", "y">>) >>

Min(a, b) == IF a <= b THEN a ELSE b

Max(a, b) == IF a >= b THEN a ELSE b

\* the value of the first publisher of the dict that is in publisher_lower
PublisherScore(publisher) ==
    LET known == {i \in DOMAIN reputable_publishers :
                     Contains(Lower(publisher), reputable_publishers[i].pub)}
    IN  IF known = {} THEN 0
        ELSE reputable_publishers[CHOOSE i \in known : \A j \in known : i <= j].value

\* min(0.5, matches * 0.1)
AcademicScore(content) ==
    Min(5, Cardinality({i \in DOMAIN academic_indicators :
                           regex_search_i(academic_indicators[i], content)}))

_calculate_authority_score(book) ==
    Min(10, PublisherScore(book.publisher)
            + (IF book.content # <<>> THEN AcademicScore(book.content) ELSE 0))

\* a table keyed by the levels determine_difficulty returns
level_scores(difficulty) ==
    CASE difficulty = "easy" -> -3
      [] difficulty = "moderate" -> 0
      [] difficulty = "hard" -> 4
      [] difficulty = "extreme" -> 7
      [] OTHER -> 0

\* difficulty_scores.get(book.difficulty, 0.0)
difficulty_scores(difficulty) ==
    CASE difficulty = "beginner" -> -3
      [] difficulty = "intermediate" -> 0
      [] difficulty = "advanced" -> 4
      [] difficulty = "expert" -> 7
      [] OTHER -> 0

technical_indicators == <<
    [pattern |-> WholeWord(<<"a", "l", "g", "o", "r", "i", "t", "h", "m">>),
     value |-> 2],
    [pattern |-> WholeWord(<<"c", "o", "m", "p", "l", "e", "x", "i", "t", "y">>),
     value |-> 2],
    [pattern |-> WholeWord(<<"i", "m", "p", "l", "e", "m", "e", "n", "t", "a", "t", "i", "o", "n">>),
     value |-> 1],
    [pattern |-> WholeWord(<<"a", "r", "c", "h", "i", "t", "e", "c", "t", "u", "r", "e">>),
     value |-> 2],
    [pattern |-> << <<Lit(<<"c", "o", "d", "e">>), Plus(SpaceChars), Lit(<<"e", "x", "a", "m", "p", "l", "e">>)>> >>,
     value |-> 1],
    [pattern |-> << <<WordB, Lit(<<"d", "e", "s", "i", "g", "n">>), Plus(SpaceChars),
                    Lit(<<"p", "a", "t", "t", "e", "r", "n">>)>> >>,
     value |-> 2],
    [pattern |-> WholeWord(<<"p", "e", "r", "f", "o", "r", "m", "a", "n", "c", "e">>),
     value |-> 1],
    [pattern |-> WholeWord(<<"o", "p", "t", "i", "m", "i", "z", "a", "t", "i", "o", "n">>),
     value |-> 2] >>

practical_indicators == <<
    [pattern |-> << <<BolOrNl, Alt({<<"d", "e", "f">>,
                             <<"c", "l", "a", "s", "s">>,
                             <<"f", "u", "n", "c", "t", "i", "o", "n">>})>> >>,
     value |-> 2],
    [pattern |-> << <<BolOrNl, Alt({<<"v", "a", "r">>,
                             <<"l", "e", "t">>,
                             <<"c", "o", "n", "s", "t">>})>> >>,
     value |-> 2],
    [pattern |-> << <<Lit(<<"e", "x", "a", "m", "p", "l", "e">>), Opt({"s"}), Plus(SpaceChars), Plus(DigitSet)>> >>,
     value |-> 1],
    [pattern |-> << <<Lit(<<"e", "x", "e", "r", "c", "i", "s", "e">>), Opt({"s"}), Plus(SpaceChars), Plus(DigitSet)>> >>,
     value |-> 2],
    [pattern |-> << <<Lit(<<"p", "r", "a", "c", "t", "i", "c", "e">>), Opt({"s"}), WordB>> >>,
     value |-> 1],
    [pattern |-> << <<Lit(<<"t", "u", "t", "o", "r", "i", "a", "l">>), Opt({"s"}), WordB>> >>,
     value |-> 1],
    [pattern |-> << <<Lit(<<"w", "o", "r", "k", "s", "h", "o", "p">>), Opt({"s"}), WordB>> >>,
     value |-> 1],
    [pattern |-> << <<Lit(<<"h", "a", "n", "d", "s">>), OneOf({"-"} \cup SpaceChars), Lit(<<"o", "n">>)>> >>,
     value |-> 2] >>

\* for pattern, value in indicators: if re.search(pattern, content, re.IGNORECASE): score += value
RECURSIVE IndicatorSum(_, _, _)
IndicatorSum(indicators, content, i) ==
    IF i > Len(indicators) THEN 0
    ELSE (IF regex_search_i(indicators[i].pattern, content) THEN indicators[i].value ELSE 0)
         + IndicatorSum(indicators, content, i + 1)

_calculate_technical_depth_score(book) ==
    Min(10, difficulty_scores(book.difficulty)
            + (IF book.content # <<>> THEN IndicatorSum(technical_indicators, book.content, 1)
               ELSE 0))

_calculate_practical_value_score(book) ==
    Min(10, IF book.content # <<>> THEN IndicatorSum(practical_indicators, book.content, 1)
            ELSE 0)

\* the weights, in hundredths
weights == [recency |-> 15, comprehensiveness |-> 25, authority |-> 20,
            technical_depth |-> 25, practical_value |-> 15]

\* score = sum of indicator * weight, in thousandths
WeightedScore(book) ==
    _calculate_recency_score(book) * weights.recency
    + _calculate_comprehensiveness_score(book) * weights.comprehensiveness
    + _calculate_authority_score(book) * weights.authority
    + _calculate_technical_depth_score(book) * weights.technical_depth
    + _calculate_practical_value_score(book) * weights.practical_value

base_rating == 6000

\* max(1.0, min(10.0, final_rating)), in thousandths
Clamp(thousandths) == Max(1000, Min(10000, thousandths))

\* round(x, 1) of a float x >= 0 whose exact value is given in thousandths, in
\* tenths: the nearest tenth; when the exact value is half way between two
\* tenths the float is just below or just above it, and round gives either
Round1(thousandths) ==
    LET q == thousandths \div 100
        r == thousandths % 100
    IN  IF r < 50 THEN {q} ELSE IF r > 50 THEN {q + 1} ELSE {q, q + 1}

\* the ratings _rate_book can return for the book, in tenths
_rate_book(book) == Round1(Clamp(base_rating + 2 * WeightedScore(book)))

\* ------------------------------------------------------------------------
\* BookLibraryOrganizer.calculate_rating (weights in halves of a rating point)
\* ------------------------------------------------------------------------

high_value_topics == <<
    [key |-> <<"a", "l", "g", "o", "r", "i", "t", "h", "m", "s">>,
     value |-> 5],
    [key |-> <<"d", "a", "t", "a", " ", "s", "t", "r", "u", "c", "t", "u", "r", "e", "s">>,
     value |-> 5],
    [key |-> <<"s", "y", "s", "t", "e", "m", " ", "d", "e", "s", "i", "g", "n">>,
     value |-> 5],
    [key |-> <<"d", "i", "s", "t", "r", "i", "b", "u", "t", "e", "d", " ", "s", "y", "s", "t", "e", "m", "s">>,
     value |-> 5],
    [key |-> <<"a", "r", "c", "h", "i", "t", "e", "c", "t", "u", "r", "e">>,
     value |-> 4],
    [key |-> <<"d", "e", "s", "i", "g", "n", " ", "p", "a", "t", "t", "e", "r", "n", "s">>,
     value |-> 4],
    [key |-> <<"s", "e", "c", "u", "r", "i", "t", "y">>,
     value |-> 4],
    [key |-> <<"p", "e", "r", "f", "o", "r", "m", "a", "n", "c", "e">>,
     value |-> 4],
    [key |-> <<"m", "a", "c", "h", "i", "n", "e", " ", "l", "e", "a", "r", "n", "i", "n", "g">>,
     value |-> 4],
    [key |-> <<"a", "r", "t", "i", "f", "i", "c", "i", "a", "l", " ", "i", "n", "t", "e", "l", "l", "i", "g", "e", "n", "c", "e">>,
     value |-> 4],
    [key |-> <<"o", "p", "t", "i", "m", "i", "z", "a", "t", "i", "o", "n">>,
     value |-> 3],
    [key |-> <<"c", "l", "o", "u", "d", " ", "c", "o", "m", "p", "u", "t", "i", "n", "g">>,
     value |-> 3],
    [key |-> <<"b", "e", "s", "t", " ", "p", "r", "a", "c", "t", "i", "c", "e", "s">>,
     value |-> 3],
    [key |-> <<"c", "l", "e", "a", "n", " ", "c", "o", "d", "e">>,
     value |-> 3],
    [key |-> <<"t", "e", "s", "t", "i", "n", "g">>,
     value |-> 2],
    [key |-> <<"d", "e", "v", "o", "p", "s">>,
     value |-> 2],
    [key |-> <<"n", "e", "t", "w", "o", "r", "k", "i", "n", "g">>,
     value |-> 2],
    [key |-> <<"d", "a", "t", "a", "b", "a", "s", "e", "s">>,
     value |-> 2] >>

renowned_authors == <<
    [key |-> <<"d", "o", "n", "a", "l", "d", " ", "k", "n", "u", "t", "h">>,
     value |-> 6],
    [key |-> <<"m", "a", "r", "t", "i", "n", " ", "f", "o", "w", "l", "e", "r">>,
     value |-> 5],
    [key |-> <<"r", "o", "b", "e", "r", "t", " ", "m", "a", "r", "t", "i", "n">>,
     value |-> 5],
    [key |-> <<"k", "e", "n", "t", " ", "b", "e", "c", "k">>,
     value |-> 5],
    [key |-> <<"b", "r", "i", "a", "n", " ", "k", "e", "r", "n", "i", "g", "h", "a", "n">>,
     value |-> 5],
    [key |-> <<"d", "e", "n", "n", "i", "s", " ", "r", "i", "t", "c", "h", "i", "e">>,
     value |-> 5],
    [key |-> <<"a", "n", "d", "r", "e", "w", " ", "t", "a", "n", "e", "n", "b", "a", "u", "m">>,
     value |-> 5],
    [key |-> <<"m", "a", "r", "t", "i", "n", " ", "k", "l", "e", "p", "p", "m", "a", "n", "n">>,
     value |-> 5],
    [key |-> <<"t", "h", "o", "m", "a", "s", " ", "c", "o", "r", "m", "e", "n">>,
     value |-> 5],
    [key |-> <<"e", "r", "i", "c", "h", " ", "g", "a", "m", "m", "a">>,
     value |-> 4],
    [key |-> <<"s", "t", "e", "v", "e", " ", "m", "c", "c", "o", "n", "n", "e", "l", "l">>,
     value |-> 4],
    [key |-> <<"r", "o", "b", "e", "r", "t", " ", "s", "e", "d", "g", "e", "w", "i", "c", "k">>,
     value |-> 4],
    [key |-> <<"j", "a", "m", "e", "s", " ", "g", "o", "s", "l", "i", "n", "g">>,
     value |-> 4],
    [key |-> <<"b", "r", "e", "n", "d", "a", "n", " ", "e", "i", "c", "h">>,
     value |-> 3],
    [key |-> <<"d", "o", "u", "g", "l", "a", "s", " ", "c", "r", "o", "c", "k", "f", "o", "r", "d">>,
     value |-> 3],
    [key |-> <<"a", "l", "e", "x", " ", "x", "u">>,
     value |-> 3] >>

negative_factors == <<
    [key |-> <<"o", "u", "t", "d", "a", "t", "e", "d">>,
     value |-> -5],
    [key |-> <<"d", "e", "p", "r", "e", "c", "a", "t", "e", "d">>,
     value |-> -4],
    [key |-> <<"b", "a", "s", "i", "c">>,
     value |-> -3],
    [key |-> <<"i", "n", "t", "r", "o", "d", "u", "c", "t", "i", "o", "n">>,
     value |-> -2],
    [key |-> <<"b", "e", "g", "i", "n", "n", "e", "r">>,
     value |-> -2],
    [key |-> <<"s", "t", "a", "r", "t", "e", "r">>,
     value |-> -2] >>

\* key in title_lower or key in keywords or key in subject
InTexts(key, book_info) ==
    \/ Contains(Lower(book_info.name), key)
    \/ Contains(Lower(book_info.keywords), key)
    \/ Contains(Lower(book_info.subject), key)

TopicMatches(book_info) ==
    {i \in DOMAIN high_value_topics : InTexts(high_value_topics[i].key, book_info)}

RECURSIVE SumValues(_, _)
SumValues(table, indices) ==
    IF indices = {} THEN 0
    ELSE LET i == CHOOSE i \in indices : TRUE
         IN  table[i].value + SumValues(table, indices \ {i})

\* base_rating plus the weight of every matching topic, in halves
TopicRating(book_info) == 10 + SumValues(high_value_topics, TopicMatches(book_info))

\* the bonus of the first renowned author in author_lower (break)
AuthorBonus(book_info) ==
    LET found == {i \in DOMAIN renowned_authors :
                     Contains(Lower(book_info.author), renowned_authors[i].key)}
    IN  IF found = {} THEN 0
        ELSE renowned_authors[CHOOSE i \in found : \A j \in found : i <= j].value

\* the penalty of every negative factor in the title, keywords or subject
Penalties(book_info) ==
    SumValues(negative_factors,
              {i \in DOMAIN negative_factors : InTexts(negative_factors[i].key, book_info)})

PagesAdjustment(book_info) ==
    IF book_info.page_count > 600 THEN 2
    ELSE IF book_info.page_count > 400 THEN 1
    ELSE IF book_info.page_count < 200 THEN -2
    ELSE 0

\* if year and year.isdigit(): the branch `elif year_int < 2005` comes after
\* `elif year_int < 2010` and is never taken
YearAdjustment(book_info) ==
    IF book_info.year # <<>> /\ IsDigitStr(book_info.year)
    THEN IF ToInt(book_info.year) >= 2020 THEN 2
         ELSE IF ToInt(book_info.year) >= 2015 THEN 1
         ELSE IF ToInt(book_info.year) < 2010 THEN -2
         ELSE 0
    ELSE 0

\* what is added after the topic boost, in halves
LaterAdjustments(book_info) ==
    AuthorBonus(book_info) + Penalties(book_info) + PagesAdjustment(book_info)
        + YearAdjustment(book_info)

\* the rating before the randomization, as the fraction num / den: with more
\* than three topic matches the topic rating is multiplied by 3 / topic_matches
Unjittered(book_info) ==
    LET m == Cardinality(TopicMatches(book_info))
    IN  IF m > 3
        THEN [num |-> 3 * TopicRating(book_info) + m * LaterAdjustments(book_info),
              den |-> 2 * m]
        ELSE [num |-> TopicRating(book_info) + LaterAdjustments(book_info), den |-> 2]

\* the rating with random.uniform(-0.3, 0.3) added, not clamped: the bounds of
\* the interval in units of 1 / (20 * den)
JitterInterval(x) == [low |-> 20 * x.num - 6 * x.den, high |-> 20 * x.num + 6 * x.den]

\* a clamp that lets every value through
NoClampInterval(interval, den) == interval

\* max(1.0, min(10.0, rating)) on both bounds, in units of 1 / (20 * den)
ClampInterval(interval, den) ==
    [low |-> Max(20 * den, Min(200 * den, interval.low)),
     high |-> Max(20 * den, Min(200 * den, interval.high))]

\* round(v, 1) for the values v of the interval, in tenths: the tenths within
\* 0.05 of a value of the interval
RoundInterval(interval, den) ==
    {t \in ((interval.low - den) \div (2 * den))..((interval.high + den) \div (2 * den) + 1) :
        interval.low - den <= 2 * t * den /\ 2 * t * den <= interval.high + den}

\* the ratings calculate_rating can return for the book, in tenths, over every
\* value of the randomization
calculate_rating(book_info) ==
    RoundInterval(ClampInterval(JitterInterval(Unjittered(book_info)),
                                Unjittered(book_info).den),
                  Unjittered(book_info).den)

\* ------------------------------------------------------------------------
\* BookAnalyzer._extract_metadata_from_filename
\* ------------------------------------------------------------------------

\* the class [\w\s\.,] of the author group
AuthorClass == AlnumChars \cup {"_", " ", ".", ","}

\* the first position from p on that holds the character c, 0 if there is none
FirstIndexOf(text, c, p) ==
    IF \E i \in p..Len(text) : text[i] = c
    THEN CHOOSE i \in p..Len(text) : text[i] = c /\ \A j \in p..(i - 1) : text[j] # c
    ELSE 0

\* the first position from p on that holds no whitespace (Len(text) + 1 if none)
SkipSpaces(text, p) ==
    CHOOSE q \in p..(Len(text) + 1) :
        /\ \A j \in p..(q - 1) : IsSpace(text[j])
        /\ q = Len(text) + 1 \/ ~IsSpace(text[q])

\* \[\d{4}\] is at position k
IsYearBracket(text, k) ==
    /\ k >= 1
    /\ k + 5 <= Len(text)
    /\ text[k] = "["
    /\ \A i \in (k + 1)..(k + 4) : IsDigitChar(text[i])
    /\ text[k + 5] = "]"

\* \s*\[\d{4}\] matches from position j
YearFrom(text, j) == IsYearBracket(text, SkipSpaces(text, j))

\* \s*\[\d{4}\]$ matches from position j
YearAtEnd(text, j) == YearFrom(text, j) /\ SkipSpaces(text, j) + 5 = Len(text)

\* int(data["year"]) of the bracket found from position j
YearOf(text, j) == ToInt(SubSeq(text, SkipSpaces(text, j) + 1, SkipSpaces(text, j) + 4))

\* the groups of a match; a group that did not take part is empty (year: NoYear)
Groups(author, title, year) ==
    [matched |-> TRUE, author |-> author, title |-> title, year |-> year]

NoMatch == [matched |-> FALSE]

\* ^(?P<author>[\w\s\.,]+?)\s*-  : the text before the first hyphen is not
\* empty and of the author class
AuthorBeforeHyphen(text) ==
    LET d == FirstIndexOf(text, "-", 1)
    IN  d > 1 /\ \A i \in 1..(d - 1) : text[i] \in AuthorClass

\* r"(?i)^(?P<author>[\w\s\.,]+?)\s*-\s*(?P<title>.*?)\s*\[(?P<year>\d{4})\]"
\* the lazy title ends at the first position a bracketed year follows
AuthorTitleYear(text) ==
    LET d == FirstIndexOf(text, "-", 1)
        s == SkipSpaces(text, d + 1)
        js == {j \in s..Len(text) : YearFrom(text, j)}
        j == CHOOSE j \in js : \A i \in js : j <= i
    IN  IF AuthorBeforeHyphen(text) /\ js # {}
        THEN Groups(SubSeq(text, 1, d - 1), SubSeq(text, s, j - 1), YearOf(text, j))
        ELSE NoMatch

\* the hyphens followed by an author of the author class and a bracketed year
HyphensBeforeAuthor(text) ==
    {d \in DOMAIN text :
        /\ text[d] = "-"
        /\ LET b == FirstIndexOf(text, "[", d + 1)
           IN  /\ b > d + 1
               /\ \A i \in (d + 1)..(b - 1) : text[i] \in AuthorClass
               /\ IsYearBracket(text, b)}

\* r"(?i)^(?P<title>.*?)\s*-\s*(?P<author>[\w\s\.,]+?)\s*\[(?P<year>\d{4})\]"
\* the lazy title ends before the first hyphen the rest matches from
TitleAuthorYear(text) ==
    LET ds == HyphensBeforeAuthor(text)
        d == CHOOSE d \in ds : \A e \in ds : d <= e
        b == FirstIndexOf(text, "[", d + 1)
    IN  IF ds # {}
        THEN Groups(SubSeq(text, d + 1, b - 1), RStrip(SubSeq(text, 1, d - 1)), YearOf(text, b))
        ELSE NoMatch

\* the title of (?P<title>.*?)(?:\s*\[(?P<year>\d{4})\])?$ read from position s
TitleToEnd(text, s) ==
    LET js == {j \in s..Len(text) : YearAtEnd(text, j)}
        j == CHOOSE j \in js : \A i \in js : j <= i
    IN  IF js # {}
        THEN [title |-> SubSeq(text, s, j - 1), year |-> YearOf(text, j)]
        ELSE [title |-> SubSeq(text, s, Len(text)), year |-> NoYear]

\* r"(?i)^(?P<author>[\w\s\.,]+?)\s*-\s*(?P<title>.*?)(?:\s*\[(?P<year>\d{4})\])?$"
AuthorTitle(text) ==
    LET d == FirstIndexOf(text, "-", 1)
        rest == TitleToEnd(text, SkipSpaces(text, d + 1))
    IN  IF AuthorBeforeHyphen(text)
        THEN Groups(SubSeq(text, 1, d - 1), rest.title, rest.year)
        ELSE NoMatch

\* r"(?i)^(?P<title>.*?)(?:\s*\[(?P<year>\d{4})\])?$"
TitleOnly(text) == Groups(<<>>, TitleToEnd(text, 1).title, TitleToEnd(text, 1).year)

\* for pattern in patterns: match = re.match(pattern, filename); if match: ...
FirstMatch(text) ==
    IF AuthorTitleYear(text).matched THEN AuthorTitleYear(text)
    ELSE IF TitleAuthorYear(text).matched THEN TitleAuthorYear(text)
    ELSE IF AuthorTitle(text).matched THEN AuthorTitle(text)
    ELSE TitleOnly(text)

\* the tuple returned for the match
Cleaned(data) ==
    [author |-> Strip(data.author), title |-> _clean_title(data.title), year |-> data.year]

_extract_metadata_from_filename(filepath) == Cleaned(FirstMatch(_clean_filename(filepath)))

\* ------------------------------------------------------------------------
\* PDFProcessor._create_book and BookAnalyzer._extract_metadata_from_pdf
\* ------------------------------------------------------------------------

\* an entry of the metadata of a PDF: missing, or present with a value
Missing == [present |-> FALSE, value |-> <<>>]

Present(value) == [present |-> TRUE, value |-> value]

\* reader.metadata with its entries /Author, /Title, /CreationDate and /ModDate;
\* a file that cannot be read and a file without metadata have no entry
PdfInfo(author, title, creation_date, mod_date) ==
    [author |-> author, title |-> title,
     creation_date |-> creation_date, mod_date |-> mod_date]

\* a PDF file: its path, its metadata, its number of pages, and the content
\* attribute its Book carries (<<>>: not set or empty)
PdfFile(path, info, page_count, content) ==
    [path |-> path, info |-> info, page_count |-> page_count, content |-> content]

\* if info: (the metadata has an entry)
HasEntries(info) ==
    info.author.present \/ info.title.present
    \/ info.creation_date.present \/ info.mod_date.present

\* PDFProcessor._extract_metadata and _create_book: the Book handed to the
\* analyzer has the title of the metadata or else the stem of the file with
\* its underscores replaced, the author of the metadata and no year
_create_book(file) ==
    [path |-> file.path,
     title |-> IF file.info.title.value # <<>> THEN file.info.title.value
               ELSE ReplaceAll(PathStem(file.path), <<"_">>, <<" ">>),
     author |-> file.info.author.value,
     year |-> NoYear,
     page_count |-> file.page_count,
     content |-> file.content]

\* the positions of the text where D: and four digits start
DateYearStarts(date_str) ==
    {i \in DOMAIN date_str :
        /\ StartsAt(date_str, i, <<"D", ":">>)
        /\ i + 5 <= Len(date_str)
        /\ \A j \in (i + 2)..(i + 5) : IsDigitChar(date_str[j])}

\* year_match = re.search(r"D:(\d{4})", date_str): int(year_match.group(1)),
\* NoYear without a match
DateYear(date_str) ==
    IF DateYearStarts(date_str) = {} THEN NoYear
    ELSE LET i == CHOOSE i \in DateYearStarts(date_str) :
                      \A j \in DateYearStarts(date_str) : i <= j
         IN  ToInt(SubSeq(date_str, i + 2, i + 5))

\* for date_field in ["/CreationDate", "/ModDate"]: the year of the first field
\* that is present and has a match
MetadataYear(info) ==
    IF info.creation_date.present /\ DateYearStarts(info.creation_date.value) # {}
    THEN DateYear(info.creation_date.value)
    ELSE IF info.mod_date.present
         THEN DateYear(info.mod_date.value)
         ELSE NoYear

\* (author, title, year) of the metadata; (None, None, None) when the file
\* cannot be read or has no metadata
_extract_metadata_from_pdf(file) ==
    IF HasEntries(file.info)
    THEN [author |-> file.info.author.value, title |-> file.info.title.value,
          year |-> MetadataYear(file.info)]
    ELSE [author |-> <<>>, title |-> <<>>, year |-> NoYear]

\* ------------------------------------------------------------------------
\* BookAnalyzer._process_single_book: the metadata of the book
\* ------------------------------------------------------------------------

\* a or b, for strings (None and '' are both written <<>>)
OrStr(a, b) == IF a # <<>> THEN a ELSE b

\* a or b, for years (None and 0 are both written NoYear)
OrYear(a, b) == IF a # NoYear THEN a ELSE b

\* re.sub(r"^by\s+", "", author, flags=re.IGNORECASE)
RemoveBy(author) ==
    IF StartsWith(Lower(author), <<"b", "y", " ">>)
    THEN LStrip(SubSeq(author, 3, Len(author)))
    ELSE author

\* re.sub(r"\s*\(Author\)$", "", author, flags=re.IGNORECASE)
RemoveAuthorTag(author) ==
    IF EndsWith(Lower(author), <<"(", "a", "u", "t", "h", "o", "r", ")">>)
    THEN RStrip(SubSeq(author, 1, Len(author) - 8))
    ELSE author

\* if book.author: the two re.sub, ';' replaced by ',', whitespace normalised
CleanAuthor(author) ==
    IF author = <<>> THEN author
    ELSE Join(Split(ReplaceAll(RemoveAuthorTag(RemoveBy(author)), <<";">>, <<",">>)))

\* the year of the metadata, of the filename or of the book, in this order
FirstYear(pdf_year, file_year, book_year) == OrYear(pdf_year, OrYear(file_year, book_year))

\* book.author, book.title and book.year after the first part of
\* _process_single_book: each is the value of the metadata, or else of the
\* filename, or else of the book; the author is cleaned
ExtractedMetadata(book, pdf, from_name) ==
    [path |-> book.path,
     title |-> OrStr(pdf.title, OrStr(from_name.title, book.title)),
     author |-> CleanAuthor(OrStr(pdf.author, OrStr(from_name.author, book.author))),
     year |-> FirstYear(pdf.year, from_name.year, book.year),
     page_count |-> book.page_count,
     content |-> book.content]

\* ------------------------------------------------------------------------
\* BookLibraryOrganizer._is_valid_author
\* ------------------------------------------------------------------------

invalid_authors == {<<"u", "n", "k", "n", "o", "w", "n">>, <<"a", "d", "m", "i", "n", "i", "s", "t", "r", "a", "t", "o", "r">>, <<"a", "d", "m", "i", "n">>, <<"u", "s", "e", "r">>, <<"g", "u", "e", "s", "t">>, <<"t", "e", "x">>, <<"l", "a", "t", "e", "x">>, <<"a", "d", "o", "b", "e">>, <<"m", "i", "c", "r", "o", "s", "o", "f", "t">>, <<"w", "r", "i", "t", "e", "r">>, <<"f", "r", "a", "m", "e", "m", "a", "k", "e", "r">>, <<"i", "n", "d", "e", "s", "i", "g", "n">>, <<"p", "d", "f">>, <<"a", "c", "r", "o", "b", "a", "t">>, <<"s", "c", "a", "n", "n", "e", "r">>, <<"s", "c", "a", "n", "s", "n", "a", "p">>, <<"c", "o", "p", "y", "r", "i", "g", "h", "t">>, <<"r", "a", "d", "i", "c", "a", "l", " ", "e", "y", "e", " ", "s", "o", "f", "t", "w", "a", "r", "e">>, <<"w", "w", "w", ".">>, <<"h", "t", "t", "p">>, <<".", "c", "o", "m">>, <<".", "o", "r", "g">>, <<".", "n", "e", "t">>}

\* the number of characters of the text that are in the set / not in the set
CountIn(text, set) == Cardinality({i \in DOMAIN text : text[i] \in set})

_is_valid_author(author) ==
    /\ author # <<>>
    /\ ~\E invalid \in invalid_authors : Contains(Lower(author), invalid)
    /\ Len(author) >= 2
    /\ Len(author) <= 100
    /\ CountIn(author, DigitSet) <= 4
    /\ 10 * (Len(author) - CountIn(Lower(author), AlnumChars \cup {" "})) <= 3 * Len(author)

\* ------------------------------------------------------------------------
\* BookAnalyzer._process_single_book and BookAnalyzer.analyze_books
\* ------------------------------------------------------------------------

\* the Book _process_single_book returns
AnalyzedBook(book, topics, difficulty, rating) ==
    [path |-> book.path, title |-> book.title, author |-> book.author,
     year |-> book.year, page_count |-> book.page_count, content |-> book.content,
     topics |-> topics, difficulty |-> difficulty, rating |-> rating]

\* book.difficulty = self.determine_difficulty(book), with the topics just set
DifficultyOf(book, topics) ==
    determine_difficulty([title |-> book.title, topics |-> topics,
                          page_count |-> book.page_count])

\* book.rating = self._rate_book(book), with the difficulty just set; a Book
\* has no publisher
RatingsOf(book, difficulty) ==
    _rate_book([year |-> book.year, page_count |-> book.page_count,
                content |-> book.content, publisher |-> <<>>,
                difficulty |-> difficulty])

\* the Books with the topics, the difficulty and a rating; None when
\* determine_topics raised (except Exception: return None)
Outcomes(book, topics) ==
    IF topics.raised THEN {None}
    ELSE {AnalyzedBook(book, topics.value, DifficultyOf(book, topics.value), rating) :
             rating \in RatingsOf(book, DifficultyOf(book, topics.value))}

\* the book after the metadata block
Extracted(file) ==
    ExtractedMetadata(_create_book(file), _extract_metadata_from_pdf(file),
                      _extract_metadata_from_filename(file.path))

\* the topics, difficulty and rating of the book after the metadata block
Analyzed(book, table) == Outcomes(book, determine_topics(book, table))

\* _process_single_book(book) for the Book of a file: what it can return (the
\* float decides the rating where it is rounded at a half)
_process_single_book(file, table) == Analyzed(Extracted(file), table)

\* the files of the books given to analyze_books: with and without title,
\* author and creation date in the metadata, with and without content
Shelf == <<
    PdfFile(<<"l", "i", "b", "/", "b", "1", ".", "p", "d", "f">>,
            PdfInfo(Missing, Missing, Missing, Missing),
            120, <<>>),
    PdfFile(<<"a", "l", "g", "o", "r", "i", "t", "h", "m", "s", "/", "g", ".", "p", "d", "f">>,
            PdfInfo(Present(<<"A", "l", " ", "L", "e", "e">>), Present(<<"G", "r", "a", "p", "h", "s">>), Present(<<"D", ":", "2", "0", "0", "8", "0", "1", "0", "1", "1", "2", "0", "0", "0", "0">>), Missing),
            450, <<>>),
    PdfFile(<<"l", "i", "b", "/", "b", "3", ".", "p", "d", "f">>,
            PdfInfo(Present(<<"A", "l", " ", "L", "e", "e">>), Present(<<"D", "a", "t", "a", " ", "T", "o", "o", "l", "s">>), Missing, Missing),
            120, <<>>),
    PdfFile(<<"l", "i", "b", "/", "b", "4", ".", "p", "d", "f">>,
            PdfInfo(Missing, Present(<<"P", "r", "o", "b", "l", "e", "m", " ", "S", "o", "l", "v", "i", "n", "g">>), Missing, Missing),
            120, <<>>),
    PdfFile(<<"d", "e", "e", "p", "/", "m", "l", ".", "p", "d", "f">>,
            PdfInfo(Missing, Present(<<"D", "e", "e", "p", " ", "N", "e", "t", "s">>), Present(<<"D", ":", "2", "0", "1", "5", "0", "1", "0", "1", "1", "2", "0", "0", "0", "0">>), Missing),
            250, <<>>),
    PdfFile(<<"a", "r", "c", "h", "/", "n", ".", "p", "d", "f">>,
            PdfInfo(Missing, Present(<<"N", "o", "t", "e", "s">>), Missing, Missing),
            120, <<>>),
    PdfFile(<<"l", "i", "b", "/", "c", "1", ".", "p", "d", "f">>,
            PdfInfo(Missing, Present(<<"N", "o", "t", "e", "s">>), Missing, Missing),
            120, <<"c", "o", "n", "t", "e", "n", "t", "s", " ", "d", "e", "e", "p", " ", "c", "h",
            "a", "p", "t", "e", "r", " ", "d", "e", "e", "p", " ", "d", "e", "e", "p", " ",
            "d", "e", "e", "p", " ", "d", "e", "e", "p", " ", "x", "x", "x", "x", "x", "x",
            "x", "x", "x", "x", "x", "x", "x", "x", "x", "x", "x", "x", "x", "x", "x", "x",
            "x", "x", "x", "x", "x", "x", "x", "x", "x", "x", "x", "x", "x", "x", "x", "x",
            "x", "x", "x", "x", "x", "x", "x", "x", "x", "x", "x", "x", "x", "x", "x", "x",
            "x", "x", "x", "x", "x", "x", "x", "x", "x", "x", "x", "x", "x", "x", "x", "x",
            "x", "x", "x", "x", "x", "x", "x", "x", "x", "x", "x", "x", "x", "x", "x", "x",
            "x", "x", "x", "x", "x", "x", "x", "x", "x", "x", "x", "x", "x", "x", "x", "x",
            "x", "x", "x", "x", "x", "x", "x", "x", "x", "x", "x", "x", "x", "x", "x", "x",
            "x", "x", "x", "x", "x", "x", "x", "x", "x", "x", "x", "x", "x", "x", "x", "x",
            "x", "x", "x", "x", "x", "x", "x", "x", "x", "x", "x", "x", "x", "x", "x", "x",
            "x", "x", "x", "x", "x", "x", "x", "x", "x", "x", "x", "x", "x">>),
    PdfFile(<<"l", "i", "b", "/", "c", "2", ".", "p", "d", "f">>,
            PdfInfo(Missing, Present(<<"N", "o", "t", "e", "s">>), Missing, Missing),
            120, <<"c", "o", "n", "t", "e", "n", "t", "s", " ", "d", "e", "e", "p", " ", "c", "h",
            "a", "p", "t", "e", "r", " ", "d", "e", "e", "p", " ", "d", "e", "e", "p", " ",
            "d", "e", "e", "p", " ", "x", "x", "x", "x", "x", "x", "x", "x", "x", "x", "x",
            "x", "x", "x", "x", "x", "x", "x", "x", "x", "x", "x", "x", "x", "x", "x", "x",
            "x", "x", "x", "x", "x", "x", "x", "x", "x", "x", "x", "x", "x", "x", "x", "x",
            "x", "x", "x", "x", "x", "x", "x", "x", "x", "x", "x", "x", "x", "x", "x", "x",
            "x", "x", "x", "x", "x", "x", "x", "x", "x", "x", "x", "x", "x", "x", "x", "x",
            "x", "x", "x", "x", "x", "x", "x", "x", "x", "x", "x", "x", "x", "x", "x", "x",
            "x", "x", "x", "x", "x", "x", "x", "x", "x", "x", "x", "x", "x", "x", "x", "x",
            "x", "x", "x", "x", "x", "x", "x", "x", "x", "x", "x", "x", "x", "x", "x", "x",
            "x", "x", "x", "x", "x", "x", "x", "x", "x", "x", "x", "x", "x", "x", "x", "x",
            "x", "x", "x", "x">>) >>

\* what _process_single_book can return, for every pattern table and file (it
\* depends on nothing else)
Processed ==
    [table \in PatternTables |->
        [b \in DOMAIN Shelf |-> _process_single_book(Shelf[b], table)]]

\* the position of the file on the shelf
ShelfIndex(file) == CHOOSE b \in DOMAIN Shelf : Shelf[b] = file

\* a worker of the pool runs _process_single_book on one book
ProcessSingleBook(b) ==
    /\ b \in DOMAIN queue
    /\ stage[b] = "queued"
    /\ \E book \in Processed[topic_patterns][ShelfIndex(queue[b])] :
           result' = [result EXCEPT ![b] = book]
    /\ stage' = [stage EXCEPT ![b] = "processed"]
    /\ UNCHANGED <<topic_patterns, queue, processed_books, report>>
    /\ UNCHANGED lib_vars
    /\ UNCHANGED fn_vars

\* for result in pool.imap_unordered(...): if result: processed_books.append(result)
CollectBook(b) ==
    /\ b \in DOMAIN queue
    /\ stage[b] = "processed"
    /\ stage' = [stage EXCEPT ![b] = "collected"]
    /\ processed_books' = IF result[b] # None THEN Append(processed_books, result[b])
                          ELSE processed_books
    /\ UNCHANGED <<topic_patterns, queue, result, report>>
    /\ UNCHANGED lib_vars
    /\ UNCHANGED fn_vars

\* round(numerator / denominator) of two naturals: the nearest integer, the
\* even one when the quotient is half way between two integers
RoundHalfEven(numerator, denominator) ==
    LET q == numerator \div denominator
        r == numerator % denominator
    IN  IF 2 * r < denominator THEN q
        ELSE IF 2 * r > denominator THEN q + 1
        ELSE IF q % 2 = 0 THEN q ELSE q + 1

\* round(sum(book.page_count ...) / len(processed_books)) if processed_books else 0
AveragePages(books) ==
    IF books = <<>> THEN 0 ELSE RoundHalfEven(SumOf(books, "page_count"), Len(books))

\* len({book.author for book in processed_books if book.author})
UniqueAuthors(books) ==
    Cardinality({books[i].author : i \in {j \in DOMAIN books : books[j].author # <<>>}})

\* book.year for book in processed_books if book.year
TruthyYears(books) ==
    {books[i].year : i \in {j \in DOMAIN books : books[j].year # NoYear}}

\* min(...) and max(...) of the years: both raise ValueError on an empty sequence
YearsRange(years) ==
    IF years = {} THEN Raise
    ELSE Return([min |-> CHOOSE y \in years : \A z \in years : y <= z,
                 max |-> CHOOSE y \in years : \A z \in years : y >= z])

\* len([b for b in processed_books if low <= b.rating <= high]), ratings in tenths
RatedBetween(books, low, high) ==
    Cardinality({i \in DOMAIN books : low <= books[i].rating /\ books[i].rating <= high})

\* the dictionary "ratings" of the summary; a rating is within 1.0 and 10.0, so
\* b.rating >= 9 and b.rating <= 2 are the ranges 9.0..10.0 and 1.0..2.0
RatingCategories(books) ==
    [excellent |-> RatedBetween(books, 90, 100),
     very_good |-> RatedBetween(books, 70, 80),
     good      |-> RatedBetween(books, 50, 60),
     average   |-> RatedBetween(books, 30, 40),
     poor      |-> RatedBetween(books, 10, 20)]

\* the dictionary "difficulties" of the summary
DifficultyCounts(books) ==
    [level \in {"easy", "moderate", "hard", "extreme"} |->
        Cardinality({i \in DOMAIN books : books[i].difficulty = level})]

\* _summarize_topics: for each (topic, subtopic) pair some book has, how many
\* entries of the books' topic lists are that pair
_summarize_topics(books) ==
    LET entries == UNION {{<<i, k>> : k \in DOMAIN books[i].topics} : i \in DOMAIN books}
        pairs == {books[e[1]].topics[e[2]] : e \in entries}
    IN  [pair \in pairs |->
            Cardinality({e \in entries : books[e[1]].topics[e[2]] = pair})]

\* the dictionary analyze_books builds once the pool is done; its entries are
\* computed in order, so the first that raises ends analyze_books
Analysis(books, years_range) ==
    IF years_range.raised THEN Raise
    ELSE Return([total_books |-> Len(books),
                 average_pages |-> AveragePages(books),
                 unique_authors |-> UniqueAuthors(books),
                 years_range |-> years_range.value,
                 ratings |-> RatingCategories(books),
                 difficulties |-> DifficultyCounts(books),
                 topics |-> _summarize_topics(books),
                 books |-> books])

\* analyze_books after its loop over the pool's results
Summarize ==
    /\ \A b \in DOMAIN queue : stage[b] = "collected"
    /\ report = None
    /\ report' = Analysis(processed_books, YearsRange(TruthyYears(processed_books)))
    /\ UNCHANGED <<topic_patterns, queue, stage, result, processed_books>>
    /\ UNCHANGED lib_vars
    /\ UNCHANGED fn_vars


\* ------------------------------------------------------------------------
\* BookLibraryOrganizer._process_single_file: author and year of file_info
\* ------------------------------------------------------------------------

\* the characters of [\x00-\x1F\x7F-\xFF] a text of the model can hold
non_printable == {"\n", "\t"}

\* re.sub(r"[\x00-\x1F\x7F-\xFF]", "", value)
RemoveNonPrintable(value) == SelectSeq(value, LAMBDA c : c \notin non_printable)

\* re.sub(r"\\[0-9]+", "", value): a backslash and the digits after it
RECURSIVE RemoveEscapes(_)
RemoveEscapes(value) ==
    IF value = <<>> THEN <<>>
    ELSE IF Head(value) = "\\" /\ Len(value) >= 2 /\ IsDigitChar(value[2])
         THEN RemoveEscapes(DropWhileIn(Tail(value), DigitSet))
         ELSE <<Head(value)>> \o RemoveEscapes(Tail(value))

\* re.sub(r"[^\w\s\-\.,:]", " ", value)
ReplaceSpecial(value) ==
    [i \in DOMAIN value |->
        IF IsWordChar(value[i]) \/ value[i] \in SpaceChars \cup {"-", ".", ",", ":"}
        THEN value[i] ELSE " "]

_clean_metadata_value(value) ==
    IF value = <<>> THEN <<>>
    ELSE Join(Split(ReplaceSpecial(RemoveEscapes(RemoveNonPrintable(Strip(value))))))

\* re.sub(r'\.pdf$', '', filename)
RemovePdfSuffix(filename) ==
    IF EndsWith(filename, <<".", "p", "d", "f">>)
    THEN SubSeq(filename, 1, Len(filename) - 4) ELSE filename

\* re.search(r'\[(\d{4})\]$', filename)
HasYearSuffix(filename) == IsYearBracket(filename, Len(filename) - 5)

\* re.sub(r'\s*\[\d{4}\]$', '', filename)
RemoveYearSuffix(filename) ==
    IF HasYearSuffix(filename) THEN RStrip(SubSeq(filename, 1, Len(filename) - 6))
    ELSE filename

\* filename.split(' - ')
RECURSIVE SplitOnDash(_)
SplitOnDash(filename) ==
    IF \E i \in DOMAIN filename : StartsAt(filename, i, <<" ", "-", " ">>)
    THEN LET i == CHOOSE k \in DOMAIN filename :
                      /\ StartsAt(filename, k, <<" ", "-", " ">>)
                      /\ \A j \in 1..(k - 1) : ~StartsAt(filename, j, <<" ", "-", " ">>)
         IN  <<SubSeq(filename, 1, i - 1)>>
             \o SplitOnDash(SubSeq(filename, i + 3, Len(filename)))
    ELSE <<filename>>

\* re.match(r'^[A-Z]\.\s*[A-Z]?\.?\s+[A-Z][a-z]+', part): initials and a surname
initials_pattern ==
    << <<Bol, OneOf(Range(UpperLetters)), Lit(<<".">>), Star(SpaceChars),
         Opt(Range(UpperLetters)), Opt({"."}), Plus(SpaceChars),
         OneOf(Range(UpperLetters)), Plus(Range(LowerLetters))>> >>

\* the dict of _parse_filename once the year is taken off the name
ParsedParts(parts, filename, year) ==
    IF Len(parts) = 2
    THEN IF regex_search(initials_pattern, parts[1])
         THEN [author |-> Strip(parts[1]), title |-> Strip(parts[2]), year |-> year]
         ELSE [author |-> Strip(parts[2]), title |-> Strip(parts[1]), year |-> year]
    ELSE [author |-> <<>>, title |-> Strip(filename), year |-> year]

ParsedName(filename, year) == ParsedParts(SplitOnDash(filename), filename, year)

ParsedFilename(filename) ==
    IF HasYearSuffix(filename)
    THEN ParsedName(RemoveYearSuffix(filename),
                    SubSeq(filename, Len(filename) - 4, Len(filename) - 1))
    ELSE ParsedName(filename, <<>>)

_parse_filename(file_path) == ParsedFilename(RemovePdfSuffix(PathName(file_path)))

\* metadata.get(key, ""), for an entry of the metadata
GetOrEmpty(entry) == IF entry.present THEN entry.value ELSE <<>>

\* file_info["author"]: the cleaned metadata author or else the author of the
\* file name, cleaned again and emptied when _is_valid_author rejects it
AuthorChosen(author) ==
    IF author = <<>> THEN <<>>
    ELSE IF _is_valid_author(_clean_metadata_value(author))
         THEN _clean_metadata_value(author) ELSE <<>>

FileAuthor(metadata, filename_info) ==
    AuthorChosen(OrStr(_clean_metadata_value(GetOrEmpty(metadata.author)),
                       filename_info.author))

\* file_info["year"]: metadata.get("/CreationDate", "")[:4] or filename_info["year"] or ""
FileYear(metadata, filename_info) ==
    OrStr(SubSeq(GetOrEmpty(metadata.creation_date), 1,
                 Min(4, Len(GetOrEmpty(metadata.creation_date)))),
          filename_info.year)

\* the author and the year _process_single_file puts into file_info, for a
\* file with the given stem whose metadata process_pdf returned
FileFields(file) ==
    [author |-> FileAuthor(file.metadata, _parse_filename(file.stem)),
     year |-> FileYear(file.metadata, _parse_filename(file.stem))]

\* ------------------------------------------------------------------------
\* Specification
\* ------------------------------------------------------------------------

\* the analyzer has not been given any book
AnalyzerIdle ==
    /\ topic_patterns = <<>>
    /\ queue = <<>>
    /\ stage = <<>>
    /\ result = <<>>
    /\ processed_books = <<>>
    /\ report = None

\* no function is called on its own
NoCall ==
    /\ call = None
    /\ ret = None
    /\ earlier = None

\* analyze_library has not been called
LibraryIdle ==
    /\ pdf_files = {}
    /\ pending = {}
    /\ all_books = <<>>
    /\ pc = "idle"
    /\ find_input = <<>>
    /\ book_idx = 1
    /\ seen_books = EmptyDict
    /\ duplicates = <<>>
    /\ matched_sig = None
    /\ analysis = None
    /\ prev_input = <<>>
    /\ prev_analysis = None

\* analyze_library is called on a library of one to MaxBooks files
Init ==
    /\ pdf_files \in {S \in SUBSET Files : 1 <= Cardinality(S) /\ Cardinality(S) <= MaxBooks}
    /\ pending = pdf_files
    /\ all_books = <<>>
    /\ pc = "collect"
    /\ find_input = <<>>
    /\ book_idx = 1
    /\ seen_books = EmptyDict
    /\ duplicates = <<>>
    /\ matched_sig = None
    /\ analysis = None
    /\ prev_input = <<>>
    /\ prev_analysis = None
    /\ AnalyzerIdle
    /\ NoCall

Next ==
    \/ \E f \in Files : Collect(f)
    \/ FindDuplicatesBegin
    \/ FindDuplicatesStep
    \/ Report
    \/ RunAgain

Spec == Init /\ [][Next]_vars

\* the lists of one to MaxBooks books of the shelf, in shelf order
BookLists ==
    {SelectSeq(Shelf, LAMBDA book : book \in S) :
        S \in {S \in SUBSET Range(Shelf) : 1 <= Cardinality(S) /\ Cardinality(S) <= MaxBooks}}

\* analyze_books is called with a list of books, under some loaded pattern table
InitAnalyzer ==
    /\ topic_patterns \in PatternTables
    /\ queue \in BookLists
    /\ stage = [b \in DOMAIN queue |-> "queued"]
    /\ result = [b \in DOMAIN queue |-> None]
    /\ processed_books = <<>>
    /\ report = None
    /\ LibraryIdle
    /\ NoCall

NextAnalyzer ==
    \/ \E b \in DOMAIN queue : ProcessSingleBook(b)
    \/ \E b \in DOMAIN queue : CollectBook(b)
    \/ Summarize

SpecAnalyzer == InitAnalyzer /\ [][NextAnalyzer]_vars

\* ------------------------------------------------------------------------
\* The rating functions called on their own
\* ------------------------------------------------------------------------

content_academic == <<"a", " ", "t", "h", "e", "o", "r", "e", "m", ",", " ", "i", "t", "s", " ", "p", "r", "o", "o", "f", " ", "a", "n", "d", " ", "r", "e", "f", "e", "r", "e", "n", "c", "e", "s">>

content_practical ==
    <<"a", "l", "g", "o", "r", "i", "t", "h", "m", " ", "c", "o", "m", "p", "l", "e", "x", "i", "t", "y", "\n", "d", "e", "f", " ", "f", ":", " ", "e", "x", "e", "r", "c", "i", "s", "e", " ", "1", ",", " ", "h", "a", "n", "d", "s", "-", "o", "n", " ", "d", "e", "s", "i", "g", "n", " ", "p", "a", "t", "t", "e", "r", "n">>

\* the books _rate_book is called with: every year of a recency step or none,
\* page counts around the thresholds, content or none, a publisher or none,
\* a difficulty or none
RatedBooks ==
    [year : {NoYear, 1990, 2013, 2014, 2017, 2019, 2021, 2023, 2024, 2025},
     page_count : {0, 100, 101, 250, 350, 450, 601},
     content : {<<>>, content_academic, content_practical},
     publisher : {<<>>, <<"M", "I", "T", " ", "P", "r", "e", "s", "s">>},
     difficulty : {"None", "easy", "moderate", "hard", "extreme"}]

\* the book_info dicts calculate_rating is called with
RatedBookInfos ==
    [name : {<<>>,
             <<"C", "l", "e", "a", "n", " ", "C", "o", "d", "e">>,
             <<"A", "l", "g", "o", "r", "i", "t", "h", "m", "s", ",", " ", "D", "a", "t", "a", " ", "S", "t", "r", "u", "c", "t", "u", "r", "e", "s", ",", " ", "S", "y", "s", "t", "e", "m", " ", "D", "e", "s", "i", "g", "n", ",", " ", "S", "e", "c", "u", "r", "i", "t", "y">>,
             <<"a", "l", "g", "o", "r", "i", "t", "h", "m", "s", " ", "d", "a", "t", "a", " ", "s", "t", "r", "u", "c", "t", "u", "r", "e", "s", " ", "s", "y", "s", "t", "e", "m", " ", "d", "e", "s", "i", "g", "n">>,
             <<"O", "u", "t", "d", "a", "t", "e", "d", " ", "b", "a", "s", "i", "c", " ", "i", "n", "t", "r", "o", "d", "u", "c", "t", "i", "o", "n", ",", " ", "a", " ", "d", "e", "p", "r", "e", "c", "a", "t", "e", "d", " ", "s", "t", "a", "r", "t", "e", "r">>},
     keywords : {<<>>},
     subject : {<<>>, <<"b", "e", "g", "i", "n", "n", "e", "r">>},
     author : {<<>>, <<"D", "o", "n", "a", "l", "d", " ", "K", "n", "u", "t", "h">>},
     page_count : {0, 250, 450, 601},
     year : {<<>>, <<"2", "0", "2", "1">>, <<"2", "0", "1", "2">>, <<"2", "0", "0", "4">>}]

\* _rate_book(book) is called
RateBook ==
    /\ call # None
    /\ call.fn = "_rate_book"
    /\ ret = None
    /\ \E rating \in _rate_book(call.arg) : ret' = Return(rating)
    /\ UNCHANGED <<call, earlier>>
    /\ UNCHANGED <<lib_vars, an_vars>>

\* the five indicator functions of _rate_book
indicator_functions ==
    {"_calculate_recency_score", "_calculate_comprehensiveness_score",
     "_calculate_authority_score", "_calculate_technical_depth_score",
     "_calculate_practical_value_score"}

\* what the indicator function fn returns for the book, in tenths
Indicator(fn, book) ==
    CASE fn = "_calculate_recency_score" -> _calculate_recency_score(book)
      [] fn = "_calculate_comprehensiveness_score" -> _calculate_comprehensiveness_score(book)
      [] fn = "_calculate_authority_score" -> _calculate_authority_score(book)
      [] fn = "_calculate_technical_depth_score" -> _calculate_technical_depth_score(book)
      [] fn = "_calculate_practical_value_score" -> _calculate_practical_value_score(book)

\* one of the indicator functions is called
CalculateIndicator ==
    /\ call # None
    /\ call.fn \in indicator_functions
    /\ ret = None
    /\ ret' = Return(Indicator(call.fn, call.arg))
    /\ UNCHANGED <<call, earlier>>
    /\ UNCHANGED <<lib_vars, an_vars>>

\* calculate_rating(book_info) is called; random.uniform gives any value
CalculateRating ==
    /\ call # None
    /\ call.fn = "calculate_rating"
    /\ ret = None
    /\ \E rating \in calculate_rating(call.arg) : ret' = Return(rating)
    /\ UNCHANGED <<call, earlier>>
    /\ UNCHANGED <<lib_vars, an_vars>>

InitRating ==
    /\ call \in [fn : {"_rate_book"}, arg : RatedBooks]
                \cup [fn : indicator_functions, arg : RatedBooks]
                \cup [fn : {"calculate_rating"}, arg : RatedBookInfos]
    /\ ret = None
    /\ earlier = None
    /\ LibraryIdle
    /\ AnalyzerIdle

NextRating ==
    \/ RateBook
    \/ CalculateIndicator
    \/ CalculateRating

SpecRating == InitRating /\ [][NextRating]_vars

\* ------------------------------------------------------------------------
\* determine_difficulty called on its own
\* ------------------------------------------------------------------------

\* the books determine_difficulty is called with: titles matching no level, one
\* level or several levels, topic lists with and without an entry in
\* topic_complexity, page counts of every page step
DifficultyBooks ==
    [title : {<<>>,
              <<"M", "a", "s", "t", "e", "r", "i", "n", "g", " ", "D", "i", "s", "t", "r", "i", "b", "u", "t", "e", "d", " ", "S", "y", "s", "t", "e", "m", "s">>,
              <<"L", "e", "a", "r", "n", " ", "T", "h", "e", "o", "r", "y">>,
              <<"B", "a", "s", "i", "c", " ", "G", "u", "i", "d", "e">>,
              <<"A", "d", "v", "a", "n", "c", "e", "d", " ", "D", "e", "s", "i", "g", "n">>,
              <<"P", "a", "r", "a", "l", "l", "e", "l", " ", "C", "o", "m", "p", "u", "t", "a", "t", "i", "o", "n">>},
     topics : {<<>>,
               << <<"Computer Science", "Theory">> >>,
               << <<"Computer Science", "Algorithms">> >>,
               << <<"Web", "Frontend">> >>},
     page_count : {0, 250, 401, 601}]

\* determine_difficulty(book) is called
DetermineDifficulty ==
    /\ call # None
    /\ call.fn = "determine_difficulty"
    /\ ret = None
    /\ ret' = Return(determine_difficulty(call.arg))
    /\ UNCHANGED <<call, earlier>>
    /\ UNCHANGED <<lib_vars, an_vars>>

\* the function is called once more, with another book
DifficultyAgain ==
    /\ call # None
    /\ call.fn = "determine_difficulty"
    /\ ret # None
    /\ earlier = None
    /\ earlier' = [call |-> call, ret |-> ret]
    /\ call' \in [fn : {"determine_difficulty"}, arg : DifficultyBooks]
    /\ ret' = None
    /\ UNCHANGED <<lib_vars, an_vars>>

InitDifficulty ==
    /\ call \in [fn : {"determine_difficulty"}, arg : DifficultyBooks]
    /\ ret = None
    /\ earlier = None
    /\ LibraryIdle
    /\ AnalyzerIdle

NextDifficulty ==
    \/ DetermineDifficulty
    \/ DifficultyAgain

SpecDifficulty == InitDifficulty /\ [][NextDifficulty]_vars

\* ------------------------------------------------------------------------
\* determine_topics called on its own
\* ------------------------------------------------------------------------

\* a content whose first fifth holds a table of contents with the keyword and
\* four more occurrences of it (0.5 + 0.5), one with three more (0.5 + 0.4),
\* and one for the keyword of another pair
content_deep_five ==
    <<"c", "o", "n", "t", "e", "n", "t", "s", " ", "d", "e", "e", "p", " ", "c", "h",
    "a", "p", "t", "e", "r", " ", "d", "e", "e", "p", " ", "d", "e", "e", "p", " ",
    "d", "e", "e", "p", " ", "d", "e", "e", "p", " ", "x", "x", "x", "x", "x", "x",
    "x", "x", "x", "x", "x", "x", "x", "x", "x", "x", "x", "x", "x", "x", "x", "x",
    "x", "x", "x", "x", "x", "x", "x", "x", "x", "x", "x", "x", "x", "x", "x", "x",
    "x", "x", "x", "x", "x", "x", "x", "x", "x", "x", "x", "x", "x", "x", "x", "x",
    "x", "x", "x", "x", "x", "x", "x", "x", "x", "x", "x", "x", "x", "x", "x", "x",
    "x", "x", "x", "x", "x", "x", "x", "x", "x", "x", "x", "x", "x", "x", "x", "x",
    "x", "x", "x", "x", "x", "x", "x", "x", "x", "x", "x", "x", "x", "x", "x", "x",
    "x", "x", "x", "x", "x", "x", "x", "x", "x", "x", "x", "x", "x", "x", "x", "x",
    "x", "x", "x", "x", "x", "x", "x", "x", "x", "x", "x", "x", "x", "x", "x", "x",
    "x", "x", "x", "x", "x", "x", "x", "x", "x", "x", "x", "x", "x", "x", "x", "x",
    "x", "x", "x", "x", "x", "x", "x", "x", "x", "x", "x", "x", "x">>

content_deep_four ==
    <<"c", "o", "n", "t", "e", "n", "t", "s", " ", "d", "e", "e", "p", " ", "c", "h",
    "a", "p", "t", "e", "r", " ", "d", "e", "e", "p", " ", "d", "e", "e", "p", " ",
    "d", "e", "e", "p", " ", "x", "x", "x", "x", "x", "x", "x", "x", "x", "x", "x",
    "x", "x", "x", "x", "x", "x", "x", "x", "x", "x", "x", "x", "x", "x", "x", "x",
    "x", "x", "x", "x", "x", "x", "x", "x", "x", "x", "x", "x", "x", "x", "x", "x",
    "x", "x", "x", "x", "x", "x", "x", "x", "x", "x", "x", "x", "x", "x", "x", "x",
    "x", "x", "x", "x", "x", "x", "x", "x", "x", "x", "x", "x", "x", "x", "x", "x",
    "x", "x", "x", "x", "x", "x", "x", "x", "x", "x", "x", "x", "x", "x", "x", "x",
    "x", "x", "x", "x", "x", "x", "x", "x", "x", "x", "x", "x", "x", "x", "x", "x",
    "x", "x", "x", "x", "x", "x", "x", "x", "x", "x", "x", "x", "x", "x", "x", "x",
    "x", "x", "x", "x", "x", "x", "x", "x", "x", "x", "x", "x", "x", "x", "x", "x",
    "x", "x", "x", "x">>

content_graph_five ==
    <<"c", "o", "n", "t", "e", "n", "t", "s", " ", "g", "r", "a", "p", "h", " ", "c",
    "h", "a", "p", "t", "e", "r", " ", "g", "r", "a", "p", "h", " ", "g", "r", "a",
    "p", "h", " ", "g", "r", "a", "p", "h", " ", "g", "r", "a", "p", "h", "x", "x",
    "x", "x", "x", "x", "x", "x", "x", "x", "x", "x", "x", "x", "x", "x", "x", "x",
    "x", "x", "x", "x", "x", "x", "x", "x", "x", "x", "x", "x", "x", "x", "x", "x",
    "x", "x", "x", "x", "x", "x", "x", "x", "x", "x", "x", "x", "x", "x", "x", "x",
    "x", "x", "x", "x", "x", "x", "x", "x", "x", "x", "x", "x", "x", "x", "x", "x",
    "x", "x", "x", "x", "x", "x", "x", "x", "x", "x", "x", "x", "x", "x", "x", "x",
    "x", "x", "x", "x", "x", "x", "x", "x", "x", "x", "x", "x", "x", "x", "x", "x",
    "x", "x", "x", "x", "x", "x", "x", "x", "x", "x", "x", "x", "x", "x", "x", "x",
    "x", "x", "x", "x", "x", "x", "x", "x", "x", "x", "x", "x", "x", "x", "x", "x",
    "x", "x", "x", "x", "x", "x", "x", "x", "x", "x", "x", "x", "x", "x", "x", "x",
    "x", "x", "x", "x", "x", "x", "x", "x", "x", "x", "x", "x", "x", "x", "x", "x",
    "x", "x", "x", "x", "x", "x", "x", "x", "x", "x", "x", "x", "x", "x", "x", "x",
    "x", "x", "x", "x", "x", "x">>

\* the books determine_topics is called with: paths and titles that match the
\* patterns of no pair, of one pair or of two, with and without content
TopicBooks ==
    [path : {<<"l", "i", "b", "/", "x", ".", "p", "d", "f">>,
             <<"g", "r", "a", "p", "h", "/", "x", ".", "p", "d", "f">>,
             <<"l", "e", "a", "r", "n", "/", "x", ".", "p", "d", "f">>},
     title : {<<"N", "o", "t", "e", "s">>,
              <<"D", "e", "e", "p", " ", "N", "e", "t", "s">>,
              <<"L", "e", "a", "r", "n", " ", "G", "r", "a", "p", "h", "s">>},
     content : {<<>>, content_deep_five, content_deep_four, content_graph_five}]

\* determine_topics(book) is called, topic_patterns being the table of the call
DetermineTopics ==
    /\ call # None
    /\ call.fn = "determine_topics"
    /\ ret = None
    /\ ret' = determine_topics(call.arg.book, call.arg.table)
    /\ UNCHANGED <<call, earlier>>
    /\ UNCHANGED <<lib_vars, an_vars>>

InitTopics ==
    /\ call \in [fn : {"determine_topics"}, arg : [book : TopicBooks, table : PatternTables]]
    /\ ret = None
    /\ earlier = None
    /\ LibraryIdle
    /\ AnalyzerIdle

NextTopics == DetermineTopics

SpecTopics == InitTopics /\ [][NextTopics]_vars

\* ------------------------------------------------------------------------
\* _process_single_file called on its own
\* ------------------------------------------------------------------------

\* the files _process_single_file is called with: names of the shapes
\* _parse_filename knows and others, with an /Author that is absent, valid or
\* deny-listed, with and without a /CreationDate
ProcessedFiles ==
    [stem : {<<"C", "l", "e", "a", "n", " ", "C", "o", "d", "e", " ", "-", " ", "R", "o", "b", "e", "r", "t", " ", "M", "a", "r", "t", "i", "n", " ", "[", "2", "0", "0", "8", "]">>,
             <<"J", ".", " ", "S", "m", "i", "t", "h", " ", "-", " ", "G", "r", "a", "p", "h", "s">>,
             <<"n", "o", "t", "e", "s">>,
             <<"G", "u", "i", "d", "e", " ", "-", " ", "A", "d", "o", "b", "e", " ", "P", "r", "e", "s", "s">>,
             <<"A", "l", " ", "L", "e", "e", " ", "-", " ", "T", "r", "e", "e", "s", " ", "[", "1", "9", "9", "9", "]">>,
             <<"x", " ", "-", " ", "y", " ", "-", " ", "z">>},
     metadata : {PdfInfo(author, Missing, creation_date, Missing) :
                    author \in {Missing,
                                Present(<<"A", "d", "o", "b", "e">>),
                                Present(<<"A", "l", " ", "L", "e", "e">>),
                                Present(<<"M", "i", "c", "r", "o", "s", "o", "f", "t", " ", "W", "o", "r", "d">>),
                                Present(<<"B", "o", " ", "(", "E", "d", ".", ")">>)},
                    creation_date \in {Missing, Present(<<"D", ":", "2", "0", "0", "8", "0", "1", "0", "1", "1", "2", "0", "0", "0", "0">>)}}]

\* _process_single_file(file_path) is called
ProcessSingleFile ==
    /\ call # None
    /\ call.fn = "_process_single_file"
    /\ ret = None
    /\ ret' = Return(FileFields(call.arg))
    /\ UNCHANGED <<call, earlier>>
    /\ UNCHANGED <<lib_vars, an_vars>>

InitFile ==
    /\ call \in [fn : {"_process_single_file"}, arg : ProcessedFiles]
    /\ ret = None
    /\ earlier = None
    /\ LibraryIdle
    /\ AnalyzerIdle

NextFile == ProcessSingleFile

SpecFile == InitFile /\ [][NextFile]_vars

\* ------------------------------------------------------------------------
\* _normalize_book_name called on its own, and on its own result
\* ------------------------------------------------------------------------

\* the words of the generated names: prefixes, suffixes and a word that is neither
NameWords == {<<"t", "h", "e">>, <<"a">>, <<"x">>, <<"b", "o", "o", "k">>, <<"e", "d">>}

\* the words joined by single spaces
RECURSIVE JoinWords(_)
JoinWords(words) ==
    IF Len(words) = 1 THEN words[1]
    ELSE words[1] \o <<" ">> \o JoinWords(Tail(words))

\* the names _normalize_book_name is called with
BookNames ==
    {JoinWords(words) : words \in UNION {[1..n -> NameWords] : n \in 1..MaxWords}}
    \cup {<<>>, <<"H", "a", "n", "d", "s", "-", "O", "n", " ", "R", "u", "s", "t", " ", "(", "2", "n", "d", " ", "E", "d", "i", "t", "i", "o", "n", ")">>, <<"A", "n", " ", " ", "I", "n", "t", "r", "o", " ", "-", " ", "P", "a", "r", "t", "_", "1", "!", ".", "p", "d", "f">>}

\* _normalize_book_name(name) is called
NormalizeBookName ==
    /\ call # None
    /\ call.fn = "_normalize_book_name"
    /\ ret = None
    /\ ret' = Return(_normalize_book_name(call.arg))
    /\ UNCHANGED <<call, earlier>>
    /\ UNCHANGED <<lib_vars, an_vars>>

\* the function is called once more, with the name it has returned
NormalizeAgain ==
    /\ call # None
    /\ call.fn = "_normalize_book_name"
    /\ ret # None
    /\ earlier = None
    /\ earlier' = [call |-> call, ret |-> ret]
    /\ call' = [fn |-> "_normalize_book_name", arg |-> ret.value]
    /\ ret' = None
    /\ UNCHANGED <<lib_vars, an_vars>>

InitNormalize ==
    /\ call \in [fn : {"_normalize_book_name"}, arg : BookNames]
    /\ ret = None
    /\ earlier = None
    /\ LibraryIdle
    /\ AnalyzerIdle

NextNormalize ==
    \/ NormalizeBookName
    \/ NormalizeAgain

SpecNormalize == InitNormalize /\ [][NextNormalize]_vars

\* ------------------------------------------------------------------------
\* _process_single_book called on its own, on the book of one file
\* ------------------------------------------------------------------------

\* the pattern table the analyzer has loaded
loaded_patterns ==
    << TopicEntry("Artificial Intelligence",
           << SubtopicEntry("Deep Learning", <<Keyword(kw_deep), Keyword(kw_neural)>>),
              SubtopicEntry("Machine Learning", <<Keyword(kw_learn)>>) >>),
       TopicEntry("Computer Science",
           << SubtopicEntry("Algorithms", <<Keyword(kw_graph)>>) >>) >>

\* the files: names of the shape title - author [year], with and without a
\* character outside the author class before the hyphen, a name without
\* author and year, a year outside 1900..2024; metadata with and without
\* author, title and dates
PdfFiles ==
    {PdfFile(path, PdfInfo(author, title, creation_date, mod_date), 250, <<>>) :
        path \in {<<"l", "i", "b", "/", "C", "l", "e", "a", "n", " ", "C", "o", "d", "e", " ", "-", " ", "R", "o", "b", "e", "r", "t", " ", "M", "a", "r", "t", "i", "n", " ", "[", "2", "0", "0", "8", "]", ".", "p", "d", "f">>,
                  <<"l", "i", "b", "/", "C", "+", "+", " ", "P", "r", "i", "m", "e", "r", " ", "-", " ", "S", "t", "a", "n", "l", "e", "y", " ", "L", "i", "p", "p", "m", "a", "n", " ", "[", "2", "0", "1", "2", "]", ".", "p", "d", "f">>,
                  <<"l", "i", "b", "/", "d", "e", "e", "p", "_", "n", "o", "t", "e", "s", ".", "p", "d", "f">>,
                  <<"l", "i", "b", "/", "x", " ", "[", "3", "0", "0", "0", "]", ".", "p", "d", "f">>},
        author \in {Missing, Present(<<"R", "o", "b", "e", "r", "t", " ", "C", ".", " ", "M", "a", "r", "t", "i", "n">>),
                    Present(<<"A", "d", "m", "i", "n", "i", "s", "t", "r", "a", "t", "o", "r">>),
                    Present(<<"B", "y", " ", "A", "l", " ", "L", "e", "e", ";", " ", " ", "B", "o", " ", "R", "a", "y", " ", "(", "A", "u", "t", "h", "o", "r", ")">>)},
        title \in {Missing, Present(<<"C", "l", "e", "a", "n", " ", "C", "o", "d", "e">>)},
        creation_date \in {Missing, Present(<<"D", ":", "2", "0", "0", "8", "0", "1", "0", "1", "1", "2", "0", "0", "0", "0">>),
                           Present(<<"D", ":", "1", "6", "0", "1", "0", "1", "0", "1", "0", "0", "0", "0", "0", "0">>),
                           Present(<<"2", "0", "0", "8", "-", "0", "1", "-", "0", "1">>)},
        mod_date \in {Missing, Present(<<"D", ":", "2", "0", "3", "0", "0", "1", "0", "1", "1", "2", "0", "0", "0", "0">>)}}

\* _process_single_book(book) for the book of a file: the metadata is
\* extracted, then topics, difficulty and rating are set; None when
\* something raised
ProcessBookOfFile ==
    /\ call # None
    /\ call.fn = "_process_single_book"
    /\ ret = None
    /\ \E book \in _process_single_book(call.arg, loaded_patterns) : ret' = Return(book)
    /\ UNCHANGED <<call, earlier>>
    /\ UNCHANGED <<lib_vars, an_vars>>

InitExtract ==
    /\ call \in [fn : {"_process_single_book"}, arg : PdfFiles]
    /\ ret = None
    /\ earlier = None
    /\ LibraryIdle
    /\ AnalyzerIdle

NextExtract == ProcessBookOfFile

SpecExtract == InitExtract /\ [][NextExtract]_vars

\* ------------------------------------------------------------------------
\* Properties of the duplicate resolution
\* ------------------------------------------------------------------------

\* the book of the list given to _find_duplicates that has the path
BookOf(path) == CHOOSE b \in Range(find_input) : b.path = path

\* the books of the list that are the duplicate side of two different edges
DiscardedTwice ==
    {duplicates[i].duplicate_path : i \in {k \in DOMAIN duplicates :
         \E j \in DOMAIN duplicates :
             j # k /\ duplicates[j].duplicate_path = duplicates[k].duplicate_path}}

\* C1: no path is the duplicate_path of more than one edge of the list
\* _find_duplicates builds (each record is discarded at most once)
C1_DiscardedAtMostOnce == DiscardedTwice = {}

\* C2: at every step of _find_duplicates every value of the signature map is a
\* record that has not been the duplicate side of any edge (no signature still
\* maps to a displaced keeper)
C2_MapHoldsOnlyKeptRecords ==
    \A s \in DOMAIN seen_books : seen_books[s].path \notin DuplicatePaths(duplicates)

\* C3: two runs of _find_duplicates on the same ordered list of records yield
\* the same sequence of edges, whatever order the signatures are probed in
C3_SameListSameEdges ==
    (pc = "done" /\ prev_analysis # None /\ prev_input = find_input)
        => analysis.duplicates = prev_analysis.duplicates

\* C4: two runs of analyze_library on the same files report the same retained
\* books and the same edges, whatever order the worker results were collected in
C4_SameReportForEveryCompletionOrder ==
    (pc = "done" /\ prev_analysis # None)
        => /\ analysis.all_books = prev_analysis.all_books
           /\ analysis.duplicates = prev_analysis.duplicates

\* C5: every edge has original_path different from duplicate_path (no record
\* is reported as a duplicate of itself)
C5_NoSelfDuplicate ==
    \A i \in DOMAIN duplicates : duplicates[i].original_path # duplicates[i].duplicate_path

\* a match was found and resolved: an edge exists, and a record displaced as
\* keeper earlier is one end of a later edge
C5_Witness ==
    /\ Len(duplicates) >= 2
    /\ \E i, j \in DOMAIN duplicates :
           /\ i < j
           /\ duplicates[i].duplicate_path
                  \in {duplicates[j].original_path, duplicates[j].duplicate_path}

\* C6: in every edge the original's completeness score is at least the
\* duplicate's, and after a matching step the matched signature maps to the
\* original of the edge that step appended
C6_HigherScoreKept ==
    /\ \A i \in DOMAIN duplicates :
           _metadata_completeness_score(BookOf(duplicates[i].original_path))
               >= _metadata_completeness_score(BookOf(duplicates[i].duplicate_path))
    /\ matched_sig # None =>
           /\ duplicates # <<>>
           /\ matched_sig \in DOMAIN seen_books
           /\ seen_books[matched_sig].path = duplicates[Len(duplicates)].original_path

\* the last step matched and the incoming record, of strictly higher score,
\* displaced the keeper, after an earlier step in which the keeper had won
C6_Witness ==
    /\ pc = "find"
    /\ matched_sig # None
    /\ Len(duplicates) = 2
    /\ duplicates[1].duplicate_path = find_input[2].path
    /\ duplicates[2].original_path = find_input[3].path
    /\ _metadata_completeness_score(BookOf(duplicates[2].original_path))
           > _metadata_completeness_score(BookOf(duplicates[2].duplicate_path))

\* the articles a title may lead with
articles == {<<"t", "h", "e">>, <<"a">>, <<"a", "n">>}

\* title t1 is title t2 behind a leading article (case aside)
DiffersByLeadingArticle(t1, t2) ==
    \E art \in articles : Lower(t1) = art \o <<" ">> \o Lower(t2)

\* a list of two records of equal size and page count whose titles differ only
\* by a leading article
ArticlePair(books) ==
    /\ Len(books) = 2
    /\ books[1].size = books[2].size
    /\ books[1].page_count = books[2].page_count
    /\ \/ DiffersByLeadingArticle(books[1].name, books[2].name)
       \/ DiffersByLeadingArticle(books[2].name, books[1].name)

WellFormed(table) ==
    /\ \A t \in DOMAIN table : table[t].is_dict
    /\ \A i \in DOMAIN TablePairs(table) :
           /\ TablePairs(table)[i].is_list
           /\ \A k \in DOMAIN TablePairs(table)[i].patterns :
                  TablePairs(table)[i].patterns[k].is_regex

\* determine_topics has been called on the book at position b
Classified(b) == stage[b] # "queued"

\* the record of the book at position b carries exactly one pair, none of
\* whose components is absent
OnePair(b) ==
    /\ result[b] # None
    /\ Len(result[b].topics) = 1
    /\ result[b].topics[1][1] # NoTopic
    /\ result[b].topics[1][2] # NoTopic

\* C8: determine_topics returns exactly one (topic, subtopic) pair, both present,
\* for every record and every pattern table
C8_ExactlyOnePair == \A b \in DOMAIN queue : Classified(b) => OnePair(b)

\* the part of C8 that holds: under every well-formed table, the empty one
\* included, every record gets exactly one pair
ExactlyOnePairWhenWellFormed ==
    WellFormed(topic_patterns) => \A b \in DOMAIN queue : Classified(b) => OnePair(b)

\* C9: under a partially invalid pattern table, a classified record still has
\* its one topic pair, and once collected it is in the batch
C9_InvalidTableStillClassifies ==
    ~WellFormed(topic_patterns) =>
        \A b \in DOMAIN queue :
            /\ Classified(b) => OnePair(b)
            /\ stage[b] = "collected" =>
                   \E i \in DOMAIN processed_books : processed_books[i].path = queue[b].path

\* the scoring ran to its end and no pair reached 1.0
NoPatternScores(book, table) ==
    /\ ~ScoringRaises(book, table)
    /\ \A i \in DOMAIN TablePairs(table) : PairScore(book, TablePairs(table)[i]) < 10

\* none of the fallback's rules applies: no specific title pattern, no path
\* keyword, no title keyword
NoFallbackRule(book) ==
    /\ \A e \in DOMAIN specific_patterns : ~SpecificHit(book.title, specific_patterns[e])
    /\ \A k \in DOMAIN SplitOnSlash(Lower(book.path)) :
           PartTopic(SplitOnSlash(Lower(book.path))[k]) = NoTopic
    /\ TitleWords(book.title) \cap {<<"a", "l", "g", "o", "r", "i", "t", "h", "m">>,
                                    <<"c", "o", "m", "p", "u", "t", "a", "t", "i", "o", "n", "a", "l">>,
                                    <<"d", "a", "t", "a">>,
                                    <<"s", "t", "r", "u", "c", "t", "u", "r", "e">>} = {}

\* the files of the shelf whose book no pattern of the table scores and no
\* fallback rule applies to
UnmatchedFiles ==
    [table \in PatternTables |->
        {f \in DOMAIN Shelf : /\ NoFallbackRule(Extracted(Shelf[f]))
                              /\ NoPatternScores(Extracted(Shelf[f]), table)}]

\* the largest score of a pair of the table for the file's book, in tenths
BestScores ==
    [table \in PatternTables |->
        [f \in DOMAIN Shelf |->
            IF ScoringRaises(Extracted(Shelf[f]), table) THEN 0
            ELSE Best(Extracted(Shelf[f]), table).score]]

Unmatched(b) ==
    /\ Classified(b)
    /\ ShelfIndex(queue[b]) \in UnmatchedFiles[topic_patterns]

\* C10 as stated: a record for which no pattern scores at least 1.0 and no
\* fallback rule applies is assigned ("Uncategorized", "General")
C10_UnmatchedIsUncategorized ==
    \A b \in DOMAIN queue :
        Unmatched(b) =>
            /\ result[b] # None
            /\ result[b].topics = << <<"Uncategorized", "General">> >>

\* C10: a record for which no pattern scores at least 1.0 and no fallback rule
\* applies is assigned the catch-all pair ("Computer Science", "Theory")
C10_UnmatchedIsTheory ==
    \A b \in DOMAIN queue :
        Unmatched(b) =>
            /\ result[b] # None
            /\ result[b].topics = << <<"Computer Science", "Theory">> >>

\* two unmatched records have been classified under a table with patterns: one
\* without title in the metadata and without content, one whose content scores
\* 0.9 for a pair
C10_Witness ==
    \E b, c \in DOMAIN queue :
        /\ Unmatched(b)
        /\ ~queue[b].info.title.present
        /\ queue[b].content = <<>>
        /\ Unmatched(c)
        /\ queue[c].content # <<>>
        /\ topic_patterns # <<>>
        /\ BestScores[topic_patterns][ShelfIndex(queue[c])] = 9
        /\ result[b].topics = << <<"Computer Science", "Theory">> >>
        /\ result[c].topics = << <<"Computer Science", "Theory">> >>

\* ------------------------------------------------------------------------
\* Properties of the rating
\* ------------------------------------------------------------------------

\* C11: every rating returned by _rate_book, and by calculate_rating for every
\* value of the randomization, is at least 1.0 and at most 10.0 (in tenths)
C11_RatingInRange ==
    (call # None /\ call.fn \in {"_rate_book", "calculate_rating"} /\ ret # None) =>
        /\ ~ret.raised
        /\ 10 <= ret.value
        /\ ret.value <= 100

\* calculate_rating has returned 10.0 for a book whose rating before the clamp
\* is above 10.0 for every value of the randomization
C11_Witness ==
    /\ call # None
    /\ call.fn = "calculate_rating"
    /\ ret # None
    /\ JitterInterval(Unjittered(call.arg)).low > 200 * Unjittered(call.arg).den
    /\ ret.value = 100

\* ------------------------------------------------------------------------
\* Properties of the difficulty
\* ------------------------------------------------------------------------

\* determine_difficulty has returned for the book of the call
DifficultyReturned ==
    call # None /\ call.fn = "determine_difficulty" /\ ret # None

\* easy < moderate < hard < extreme
LevelRank(level) ==
    CASE level = "easy" -> 1
      [] level = "moderate" -> 2
      [] level = "hard" -> 3
      [] level = "extreme" -> 4
      [] OTHER -> 0

\* C12: the final score is mapped by fixed thresholds (<= -2 easy, <= 1
\* moderate, <= 3 hard, above extreme), the result is one of the four levels,
\* and of two calls the one with the higher score has no lower level
C12_FixedThresholds ==
    DifficultyReturned =>
        LET score == DifficultyScore(call.arg)
        IN  /\ score <= -2 => ret.value = "easy"
            /\ (-2 < score /\ score <= 1) => ret.value = "moderate"
            /\ (1 < score /\ score <= 3) => ret.value = "hard"
            /\ score > 3 => ret.value = "extreme"
            /\ ret.value \in {"easy", "moderate", "hard", "extreme"}
            /\ (earlier # None /\ DifficultyScore(earlier.call.arg) <= score) =>
                   LevelRank(earlier.ret.value) <= LevelRank(ret.value)

\* a call with score -2 has returned easy and a later call with score 3 hard
C12_Witness ==
    /\ DifficultyReturned
    /\ earlier # None
    /\ DifficultyScore(earlier.call.arg) = -2
    /\ earlier.ret.value = "easy"
    /\ DifficultyScore(call.arg) = 3
    /\ ret.value = "hard"

\* the levels with a pattern found in the lower-cased title, by position
MatchingLevels(title) ==
    {l \in DOMAIN complexity_indicators :
        LevelMatches(complexity_indicators[l], Lower(title))}

\* the delta of the first matching level only
FirstMatchingDelta(title) ==
    IF MatchingLevels(title) = {} THEN 0
    ELSE <<-2, 0, 2, 4>>[CHOOSE l \in MatchingLevels(title) :
                            \A k \in MatchingLevels(title) : l <= k]

\* the deltas of all matching levels, each once
AllMatchingDeltas(title) ==
    (IF 1 \in MatchingLevels(title) THEN -2 ELSE 0)
    + (IF 3 \in MatchingLevels(title) THEN 2 ELSE 0)
    + (IF 4 \in MatchingLevels(title) THEN 4 ELSE 0)

\* C13 as stated: the title signal contributes the delta of the first matching
\* level only (a title matching an easy and an extreme pattern contributes -2)
C13_FirstLevelOnly ==
    DifficultyReturned =>
        /\ TitleDelta(Lower(call.arg.title), 1) = FirstMatchingDelta(call.arg.title)
        /\ ret.value = LevelOf(FirstMatchingDelta(call.arg.title)
                               + TopicBonus(call.arg.topics) + PageImpact(call.arg.page_count))

\* C13: every level contributes its delta at most once and the deltas of all
\* matching levels are added (a title matching an easy and an extreme pattern
\* contributes +2)
C13_MatchingLevelsAdd ==
    DifficultyReturned =>
        /\ TitleDelta(Lower(call.arg.title), 1) = AllMatchingDeltas(call.arg.title)
        /\ ret.value = LevelOf(AllMatchingDeltas(call.arg.title)
                               + TopicBonus(call.arg.topics) + PageImpact(call.arg.page_count))

\* a title matching an easy and an extreme pattern, with no other signal, is hard
C13_Witness ==
    /\ DifficultyReturned
    /\ MatchingLevels(call.arg.title) = {1, 4}
    /\ call.arg.topics = <<>>
    /\ PageImpact(call.arg.page_count) = 0
    /\ ret.value = "hard"

\* the title is "Mastering Distributed Systems", no topic adds a bonus and
\* page_count is 0
MasteringAlone ==
    /\ DifficultyReturned
    /\ Lower(call.arg.title) = <<"m", "a", "s", "t", "e", "r", "i", "n", "g", " ", "d", "i", "s", "t", "r", "i", "b", "u", "t", "e", "d", " ", "s", "y", "s", "t", "e", "m", "s">>
    /\ TopicBonus(call.arg.topics) = 0
    /\ call.arg.page_count = 0

\* C14: "Mastering Distributed Systems" with no other signal is hard or extreme
C14_MasteringIsHardOrExtreme == MasteringAlone => ret.value \in {"hard", "extreme"}

\* the call has returned extreme for the title with an empty topic list
C14_Witness ==
    /\ MasteringAlone
    /\ call.arg.topics = <<>>
    /\ ret.value = "extreme"

\* ------------------------------------------------------------------------
\* Properties of the extraction
\* ------------------------------------------------------------------------

\* C15: _normalize_book_name is idempotent: called on its own result it
\* returns that result, also for names with several leading prefixes or
\* several trailing suffixes
C15_NormalizeIdempotent ==
    (/\ call # None
     /\ call.fn = "_normalize_book_name"
     /\ earlier # None
     /\ ret # None) => ret.value = earlier.ret.value

\* _process_single_book has returned the book of the file
BookReturned ==
    /\ call # None
    /\ call.fn = "_process_single_book"
    /\ ret # None
    /\ ret.value # None

\* C16: after the extraction the year of a record is absent or lies in
\* 1900..2024, whichever source it came from
C16_YearInRange ==
    BookReturned =>
        \/ ret.value.year = NoYear
        \/ (1900 <= ret.value.year /\ ret.value.year <= 2024)

\* C17: after the extraction the author of a record is absent or passes the
\* validity check, and the extraction of no file raises
C17_AuthorValid ==
    /\ (call # None /\ call.fn = "_process_single_book" /\ ret # None) => ret.value # None
    /\ BookReturned => (ret.value.author = <<>> \/ _is_valid_author(ret.value.author))

\* the file is named Clean Code - Robert Martin [2008] and has no metadata
CleanCodeFile ==
    /\ call # None
    /\ call.fn = "_process_single_book"
    /\ PathStem(call.arg.path) = <<"C", "l", "e", "a", "n", " ", "C", "o", "d", "e", " ", "-", " ", "R", "o", "b", "e", "r", "t", " ", "M", "a", "r", "t", "i", "n", " ", "[", "2", "0", "0", "8", "]">>
    /\ ~HasEntries(call.arg.info)

\* C18: the file name Clean Code - Robert Martin [2008] gives the title Clean
\* Code, the author Robert Martin and the year 2008
C18_TitleFirst ==
    (CleanCodeFile /\ BookReturned) =>
        /\ ret.value.title = <<"C", "l", "e", "a", "n", " ", "C", "o", "d", "e">>
        /\ ret.value.author = <<"R", "o", "b", "e", "r", "t", " ", "M", "a", "r", "t", "i", "n">>
        /\ ret.value.year = 2008

\* ------------------------------------------------------------------------
\* Batch report
\* ------------------------------------------------------------------------

\* C19: for every non-empty list of processed books analyze_books returns its
\* report and does not raise, also when no processed book has a year or an author
C19_ReportReturned ==
    (report # None /\ processed_books # <<>>) => ~report.raised

\* the books of the batch whose _process_single_book raised and returned None
Failed == {b \in DOMAIN queue : stage[b] # "queued" /\ result[b] = None}

\* analyze_books has ended on a batch in which a book failed
FailureInBatch == report # None /\ Failed # {}

\* the failed books have no record in processed_books, and every other book has
\* exactly the record it gets when it is processed on its own
RecordsUnaffected ==
    /\ \A b \in Failed :
           ~\E i \in DOMAIN processed_books : processed_books[i].path = queue[b].path
    /\ \A b \in DOMAIN queue \ Failed :
           /\ result[b] \in _process_single_book(queue[b], topic_patterns)
           /\ \E i \in DOMAIN processed_books : processed_books[i] = result[b]
    /\ Len(processed_books) = Cardinality(DOMAIN queue \ Failed)

\* C20: when the processing of a book fails, the batch still ends with a report,
\* the failed book has no record in it, and the records of the other books are
\* those of a batch without the failed book
C20_FailureIsolated ==
    FailureInBatch => (~report.raised /\ RecordsUnaffected)

\* ------------------------------------------------------------------------
\* Topic selection
\* ------------------------------------------------------------------------

\* determine_topics was called on its own and returned
TopicsReturned ==
    /\ call # None
    /\ call.fn = "determine_topics"
    /\ ret # None
    /\ ~ret.raised

\* the scores of the pairs of the table for the book, by position in the table
ScoresOf(book, table) ==
    [i \in DOMAIN TablePairs(table) |-> PairScore(book, TablePairs(table)[i])]

\* the positions of the pairs that have the maximum score
MaxPositions(scores) ==
    {i \in DOMAIN scores : \A j \in DOMAIN scores : scores[j] <= scores[i]}

\* the first pair of the table among those with the maximum score
FirstMaxPair(table, scores) ==
    LET i == CHOOSE m \in MaxPositions(scores) : \A n \in MaxPositions(scores) : m <= n
    IN  <<TablePairs(table)[i].topic, TablePairs(table)[i].subtopic>>

\* the call had a pair with a score of at least 1.0
SomePairSelected(scores) == \E i \in DOMAIN scores : scores[i] >= 10

TableOrderBreaksTies(book, table, scores) ==
    SomePairSelected(scores) => ret.value = <<FirstMaxPair(table, scores)>>

\* C21: when several pairs have the maximum score, determine_topics returns the
\* one that comes first in the pattern table
C21_TableOrderBreaksTies ==
    TopicsReturned =>
        TableOrderBreaksTies(call.arg.book, call.arg.table,
                             ScoresOf(call.arg.book, call.arg.table))

\* the value returned is one pair of the table, and that pair has the maximum score
MaxPairReturned(table, scores) ==
    \E i \in MaxPositions(scores) :
        ret.value = << <<TablePairs(table)[i].topic, TablePairs(table)[i].subtopic>> >>

ThresholdDecides(book, table, scores) ==
    IF SomePairSelected(scores)
    THEN MaxPairReturned(table, scores)
    ELSE ret.value = _determine_fallback_topic(book)

\* C22: determine_topics returns a pair with the maximum score when that score
\* is at least 1.0 (so always when the path or the title matches a pattern),
\* and what the fallback returns when it is below 1.0
C22_ThresholdDecides ==
    TopicsReturned =>
        ThresholdDecides(call.arg.book, call.arg.table,
                         ScoresOf(call.arg.book, call.arg.table))

MaxIsThreshold(scores) ==
    /\ \E i \in DOMAIN scores : scores[i] = 10
    /\ \A i \in DOMAIN scores : scores[i] <= 10

\* a call whose maximum score is exactly 1.0 returned the pair, which the
\* fallback would not have returned
C22_Witness ==
    /\ TopicsReturned
    /\ MaxIsThreshold(ScoresOf(call.arg.book, call.arg.table))
    /\ ret.value # _determine_fallback_topic(call.arg.book)

\* ------------------------------------------------------------------------
\* Properties of the rating indicators
\* ------------------------------------------------------------------------

\* the levels determine_difficulty returns
difficulty_levels == {"easy", "moderate", "hard", "extreme"}

\* _calculate_technical_depth_score has returned for a book with a difficulty level
DepthReturned ==
    /\ call # None
    /\ call.fn = "_calculate_technical_depth_score"
    /\ ret # None
    /\ call.arg.difficulty \in difficulty_levels

\* C23: the technical depth depends on the difficulty level: for the content of
\* the book there is another level that gives another technical depth
C23_DepthDependsOnDifficulty ==
    DepthReturned =>
        \E level \in difficulty_levels :
            _calculate_technical_depth_score([call.arg EXCEPT !.difficulty = level])
                # ret.value

\* ------------------------------------------------------------------------
\* Priority of the metadata over the file name
\* ------------------------------------------------------------------------

\* _process_single_file was called on its own and returned
FileReturned ==
    /\ call # None
    /\ call.fn = "_process_single_file"
    /\ ret # None

\* with the metadata author and the file name author given: a valid metadata
\* author is the author of the record; an invalid one is replaced by a valid
\* author of the file name
AuthorByPriority(from_metadata, from_name) ==
    /\ (from_metadata # <<>> /\ _is_valid_author(from_metadata)) =>
           ret.value.author = from_metadata
    /\ (from_metadata # <<>> /\ ~_is_valid_author(from_metadata)
            /\ _is_valid_author(from_name)) =>
           ret.value.author = from_name

\* C24: the author of the record is the metadata author when that is valid, and
\* the file name's author when the metadata author is present but invalid and
\* the file name yields a valid one
C24_InvalidAuthorFallsBack ==
    FileReturned =>
        AuthorByPriority(_clean_metadata_value(GetOrEmpty(call.arg.metadata.author)),
                         _parse_filename(call.arg.stem).author)

\* ------------------------------------------------------------------------
\* Order of collection and duplicate resolution
\* ------------------------------------------------------------------------

\* the result of every worker that returned a record is in all_books
EveryResultCollected ==
    \A f \in pdf_files :
        _process_single_file(f) # None =>
            \E i \in DOMAIN all_books : all_books[i] = _process_single_file(f)

\* C25: while _find_duplicates runs, no worker result is outstanding, every
\* result has been collected, and all_books is still the list the pass was
\* called with (nothing was appended after it began)
C25_DedupAfterCollection ==
    pc = "find" =>
        /\ pending = {}
        /\ EveryResultCollected
        /\ all_books = find_input

\* the pass is under way on a library of MaxBooks files, one of which failed
C25_Witness ==
    /\ pc = "find"
    /\ book_idx > 1
    /\ book_idx <= Len(find_input)
    /\ Cardinality(pdf_files) = MaxBooks
    /\ \E f \in pdf_files : _process_single_file(f) = None

\* ------------------------------------------------------------------------
\* Ties and the signature map
\* ------------------------------------------------------------------------

\* the last iteration of _find_duplicates found a match
StepMatched == pc \in {"find", "done"} /\ book_idx > 1 /\ matched_sig # None

\* the edge of the last iteration has the incoming record as its original
\* exactly when its score is strictly greater than the keeper's; otherwise the
\* keeper is the original and stays in the signature map
StrictlyGreaterReplaces(incoming, edge) ==
    /\ incoming.path \in {edge.original_path, edge.duplicate_path}
    /\ edge.original_path # edge.duplicate_path
    /\ IF edge.original_path = incoming.path
       THEN _metadata_completeness_score(incoming)
                > _metadata_completeness_score(BookOf(edge.duplicate_path))
       ELSE /\ _metadata_completeness_score(incoming)
                   <= _metadata_completeness_score(BookOf(edge.original_path))
            /\ seen_books[matched_sig].path = edge.original_path

\* C26: on a match the incoming record replaces the keeper only when its score
\* is strictly greater; with equal scores the existing record is kept and the
\* incoming one is the duplicate of the edge
C26_TieKeepsExisting ==
    StepMatched =>
        StrictlyGreaterReplaces(find_input[book_idx - 1], duplicates[Len(duplicates)])

\* the last iteration matched a keeper of equal score, and the incoming record
\* is the duplicate
C26_Witness ==
    /\ StepMatched
    /\ duplicates[Len(duplicates)].duplicate_path = find_input[book_idx - 1].path
    /\ _metadata_completeness_score(find_input[book_idx - 1])
           = _metadata_completeness_score(BookOf(duplicates[Len(duplicates)].original_path))

OriginalsOf(paths) ==
    {duplicates[i].original_path :
        i \in {j \in DOMAIN duplicates : duplicates[j].duplicate_path \in paths}}

\* the paths reached from the given paths by following original_path k times
RECURSIVE Following(_, _)
Following(paths, k) == IF k = 0 THEN paths ELSE Following(OriginalsOf(paths), k - 1)

\* the paths of the records analyze_library retained
RetainedPaths == {all_books[i].path : i \in DOMAIN all_books}

\* the record was removed and some chain of edges leads from it to a retained one
LeadsToRetained(path) ==
    \E k \in 1..Len(find_input) : Following({path}, k) \cap RetainedPaths # {}

\* C28: following original_path from a duplicate always ends (no chain of edges
\* is as long as the list), and once analyze_library has removed the duplicates
\* of a non-empty list a record remains and every removed record is connected
\* through edges to a retained one
C28_EdgesAcyclic ==
    /\ \A i \in DOMAIN duplicates :
           Following({duplicates[i].duplicate_path}, Len(find_input)) = {}
    /\ (pc = "done" /\ find_input # <<>>) =>
           /\ all_books # <<>>
           /\ \A b \in Range(find_input) :
                  b.path \notin RetainedPaths => LeadsToRetained(b.path)

\* the report is built, and a removed record is the duplicate of a record
\* that was removed as well
C28_Witness ==
    /\ pc = "done"
    /\ \E i, j \in DOMAIN duplicates :
           /\ duplicates[i].original_path = duplicates[j].duplicate_path
           /\ duplicates[i].duplicate_path \notin RetainedPaths
           /\ duplicates[j].original_path \in RetainedPaths

\* the call is on a book whose difficulty is a level or absent, and has returned
RatedWithLevel ==
    /\ call # None
    /\ call.fn \in indicator_functions \cup {"_rate_book"}
    /\ ret # None
    /\ call.arg.difficulty \in difficulty_levels \cup {"None"}

Summarized == report # None /\ ~report.raised

\* the sum of the counts of a dictionary of the summary
RECURSIVE SumOfCounts(_, _)
SumOfCounts(counts, keys) ==
    IF keys = {} THEN 0
    ELSE LET key == CHOOSE k \in keys : TRUE
         IN  counts[key] + SumOfCounts(counts, keys \ {key})

\* the four difficulty counts of the report add up to total_books
DifficultiesCountEveryBook ==
    Summarized =>
        SumOfCounts(report.value.difficulties, DOMAIN report.value.difficulties)
            = report.value.total_books

\* C30: in the report of analyze_books the counts of the five rating categories
\* add up to total_books, and so do the four difficulty counts
C30_CategoriesCountEveryBook ==
    /\ Summarized =>
           SumOfCounts(report.value.ratings, DOMAIN report.value.ratings)
               = report.value.total_books
    /\ DifficultiesCountEveryBook

====
